---------------------------- MODULE Spec2Model ----------------------------
(***************************************************************************)
(* A model of biggr_maps: the diagram data model (Map, Node, Segment,      *)
(* Reaction, AutoReaction), the metabolite placement of                    *)
(* AutoReaction.add_metabolite, the backbone pathway placement of          *)
(* pathway.py, the export/import round trip of Map.to_escher and           *)
(* load_as_template, and the backbone extraction of kgml_to_escher_map.    *)
(*                                                                         *)
(* Objects live in heaps: nodes, segs and rxns are sequences of records    *)
(* and an object reference is an index into its heap (0 is None).          *)
(* Coordinates are integers.  Angles are integers in units of 1e-8 rad;    *)
(* the reaction axis is a whole number q of quarter turns (q * pi/2),      *)
(* which is what atan2 yields for the axis-aligned geometry modelled.      *)
(***************************************************************************)
EXTENDS Integers, Sequences, FiniteSets, TLC

VARIABLES
  nodes,     \* heap of Node objects
  segs,      \* heap of Segment objects
  rxns,      \* heap of Reaction / AutoReaction objects
  maps,      \* the Map objects: registries and counters
  err,       \* the exception the last operation raised, "" when it returned
  last,      \* history: what the last operation was and what it decided
  search,    \* the running call of alternating_pathways_sides
  doc,       \* the exported document and what was loaded back from it
  lines      \* the polylines of a reaction and the backbone extracted

vars == <<nodes, segs, rxns, maps, err, last, search, doc, lines>>

\* the variables of the pathway search, the round trip and the extraction
aside == <<search, doc, lines>>

\* no pathway search, no document, no polylines
Aside == search = <<>> /\ doc = <<>> /\ lines = <<>>

---------------------------------------------------------------------------
(* Bounds of the model *)

NumMets == 2          \* MetaboliteNode objects offered to the operations
MaxRxns == 1          \* Reaction objects constructed
MaxMets == 2          \* add_metabolite calls per reaction
BiggLen == 2          \* len(node.bigg_id) of every metabolite

\* Map 1 is the map being built; map 2 is another Map of the caller
Maps == {1, 2}
Coefs == {-1, 1}      \* stoichiometric coefficients offered

None == -1            \* identifier None
NoRef == 0            \* object reference None
NoPos == <<>>         \* x / y (or label_x / label_y) None

---------------------------------------------------------------------------
(* Numbers *)

Abs(v) == IF v < 0 THEN -v ELSE v
Min(a, b) == IF a < b THEN a ELSE b

\* a vector turned by k quarter turns counter-clockwise
RECURSIVE Rot(_, _)
Rot(v, k) == IF k % 4 = 0 THEN v ELSE Rot(<<-v[2], v[1]>>, (k % 4) - 1)

VAdd(a, b) == <<a[1] + b[1], a[2] + b[2]>>
VSub(a, b) == <<a[1] - b[1], a[2] - b[2]>>

---------------------------------------------------------------------------
(* Placement geometry.  calculate_placement works in floating point with   *)
(* cos, sin, sqrt and atan2; its results are tabulated here, evaluated     *)
(* from the source with the default PlacementOptions (delta = 0.15 pi,     *)
(* scale = 3.0, b1_scale = 0.3, b2_scale = 0.8, non_primary_scaling) and   *)
(* unit = 50, in the frame of the side being placed: reference node at     *)
(* the origin, the side's direction (axis angle, plus pi on the minus      *)
(* side) along +x.  The results do not depend on the frame.  Positions     *)
(* are rounded to whole coordinate units, angles to 1e-8 rad.              *)

\* placement_opts.delta, 0.15 * pi
DELTA == 47123890

\* node position relative to the reference node for slot i (index i + 1)
\* when the node has no position, by node_is_primary
SlotOffsetTable ==
  [p \in BOOLEAN |-> IF p
     THEN <<<<150, 0>>, <<134, -68>>, <<134, 68>>, <<88, -121>>, <<88, 121>>, <<23, -148>>, <<23, 148>>, <<-46, -143>>, <<-46, 143>>, <<-106, -106>>>>
     ELSE <<<<129, 0>>, <<107, -54>>, <<107, 54>>, <<65, -90>>, <<65, 90>>, <<16, -101>>, <<16, 101>>, <<-29, -88>>, <<-29, 88>>, <<-59, -59>>>>]

\* effective_angle_delta of slot i for a node without position and
\* b1_b2 = None, by node_is_primary
EffSlotTable ==
  [p \in BOOLEAN |-> IF p
     THEN <<0, -37430410, 37430410, -75923866, 75923866, -116774900, 116774900, -161735412, 161735412, -212986246>>
     ELSE <<0, -41738489, 41738489, -86883532, 86883532, -135258738, 135258738, -185336138, 185336138, -234902864>>]

\* nodes with a position: <<node minus reference node in the frame of the
\* side, effective_angle_delta of slot i (index i + 1) for b1_b2 = None
\* (the candidate angle moves only the control point b2),
\* effective_angle_delta for a given b1_b2 (the direction of the node)>>.
\* Positions straight behind the reference are left out: there the delta
\* is pi or -pi by the rounding of the frame.
KnownRows ==
  {<<<<-300, -500>>, <<-60806538, -55167929, -64578865, -49252485, -65742297, -44792640, -64405262, -42819382, -61151755, -43448102>>, -211121583>>,
   <<<<-300, -400>>, <<-77508925, -70628036, -81353885, -62631961, -81693834, -56112423, -79077704, -52788706, -74417926, -52934983>>, -221429744>>,
   <<<<-300, -300>>, <<-104535341, -96584142, -107298988, -85163317, -105465922, -74444856, -100395030, -68045311, -93395162, -66822040>>, -235619449>>,
   <<<<-300, -200>>, <<-150900291, -145593261, -148581606, -130587310, -141551063, -110090713, -131896810, -94401871, -121028593, -88393204>>, -255359005>>,
   <<<<-300, -100>>, <<-225056625, -236022411, -210519649, -238836786, -194338962, -221336808, -177534146, -169786879, -160840211, -129239609>>, -281984210>>,
   <<<<-300, 100>>, <<225056625, 210519649, 236022411, 194338962, 238836786, 177534146, 221336808, 160840211, 169786879, 145040208>>, 281984210>>,
   <<<<-300, 200>>, <<150900291, 148581606, 145593261, 141551063, 130587310, 131896810, 110090713, 121028593, 94401871, 110029255>>, 255359005>>,
   <<<<-300, 300>>, <<104535341, 107298988, 96584142, 105465922, 85163317, 100395030, 74444856, 93395162, 68045311, 85575358>>, 235619449>>,
   <<<<-300, 400>>, <<77508925, 81353885, 70628036, 81693834, 62631961, 79077704, 56112423, 74417926, 52788706, 68654782>>, 221429744>>,
   <<<<-300, 500>>, <<60806538, 64578865, 55167929, 65742297, 49252485, 64405262, 44792640, 61151755, 42819382, 56729229>>, 211121583>>,
   <<<<-250, -500>>, <<-63909212, -58339550, -67539424, -52384312, -68544394, -47796184, -67072742, -45662356, -63725777, -46146283>>, -203444394>>,
   <<<<-250, -400>>, <<-83061365, -76453301, -86525372, -68473299, -86516576, -61707313, -83645973, -58015410, -78836133, -57811506>>, -212939564>>,
   <<<<-250, -300>>, <<-114990174, -108170239, -116709928, -97379764, -114151599, -86352213, -108668354, -79006679, -101510995, -76762419>>, -226553460>>,
   <<<<-250, -200>>, <<-168630802, -166767237, -164519062, -156591735, -156777439, -139174765, -147085301, -122065981, -136661648, -112476554>>, -246685171>>,
   <<<<-250, -100>>, <<-241426402, -251026002, -229283609, -255646566, -216018475, -250879960, -202644558, -231092805, -190137834, -200709398>>, -276108628>>,
   <<<<-250, 100>>, <<241426402, 229283609, 251026002, 216018475, 255646566, 202644558, 250879960, 190137834, 231092805, 179783445>>, 276108628>>,
   <<<<-250, 200>>, <<168630802, 164519062, 166767237, 156777439, 156591735, 147085301, 139174765, 136661648, 122065981, 126546633>>, 246685171>>,
   <<<<-250, 300>>, <<114990174, 116709928, 108170239, 114151599, 97379764, 108668354, 86352213, 101510995, 79006679, 93747739>>, 226553460>>,
   <<<<-250, 400>>, <<83061365, 86525372, 76453301, 86516576, 68473299, 83645973, 61707313, 78836133, 58015410, 73021184>>, 212939564>>,
   <<<<-250, 500>>, <<63909212, 67539424, 58339550, 68544394, 52384312, 67072742, 47796184, 63725777, 45662356, 59255287>>, 203444394>>,
   <<<<-200, -500>>, <<-65931273, -60476892, -69427112, -54570458, -70321250, -49949564, -68781079, -47726047, -65409214, -48099973>>, -195130270>>,
   <<<<-200, -400>>, <<-86613404, -80325131, -89771311, -72538556, -89550833, -65753538, -86575691, -61874988, -81753441, -61418865>>, -203444394>>,
   <<<<-200, -300>>, <<-121239264, -115366522, -122319193, -105492697, -119456395, -94829010, -113924519, -87178724, -106903919, -84288604>>, -215879893>>,
   <<<<-200, -200>>, <<-177105129, -176643369, -172692957, -169445075, -165273937, -155747090, -156278995, -140453322, -146832938, -130003265>>, -235619449>>,
   <<<<-200, -100>>, <<-246491151, -253991129, -236861336, -257589963, -226364824, -254823490, -216049437, -243431032, -207008045, -225226380>>, -267794504>>,
   <<<<-200, 100>>, <<246491151, 236861336, 253991129, 226364824, 257589963, 216049437, 254823490, 207008045, 243431032, 200648512>>, 267794504>>,
   <<<<-200, 200>>, <<177105129, 172692957, 176643369, 165273937, 169445075, 156278995, 155747090, 146832938, 140453322, 137967468>>, 235619449>>,
   <<<<-200, 300>>, <<121239264, 122319193, 115366522, 119456395, 105492697, 113924519, 94829010, 106903919, 87178724, 99423802>>, 215879893>>,
   <<<<-200, 400>>, <<86613404, 89771311, 80325131, 89550833, 72538556, 86575691, 65753538, 81753441, 61874988, 76001339>>, 203444394>>,
   <<<<-200, 500>>, <<65931273, 69427112, 60476892, 70321250, 54570458, 68781079, 49949564, 65409214, 47726047, 60952419>>, 195130270>>,
   <<<<-150, -500>>, <<-66694636, -61384603, -70080166, -55605043, -70922034, -51047629, -69384494, -48814894, -66056505, -49126755>>, -186225312>>,
   <<<<-150, -400>>, <<-87777090, -81790298, -90748821, -74316803, -90474352, -67722071, -87547222, -63860845, -82840708, -63291991>>, -192956700>>,
   <<<<-150, -300>>, <<-122651677, -117345134, -123544461, -108330768, -120769566, -98423769, -115489569, -91070968, -108816571, -88039738>>, -203444394>>,
   <<<<-150, -200>>, <<-177119488, -176727870, -173245958, -170718517, -166647245, -159451176, -158608639, -146609593, -150201472, -137199008>>, -221429744>>,
   <<<<-150, -100>>, <<-243768964, -249356711, -236227178, -251590171, -227876327, -248912295, -219731808, -240458678, -212843106, -227937915>>, -255359005>>,
   <<<<-150, 100>>, <<243768964, 236227178, 249356711, 227876327, 251590171, 219731808, 248912295, 212843106, 240458678, 208450697>>, 255359005>>,
   <<<<-150, 200>>, <<177119488, 173245958, 176727870, 166647245, 170718517, 158608639, 159451176, 150201472, 146609593, 142436127>>, 221429744>>,
   <<<<-150, 300>>, <<122651677, 123544461, 117345134, 120769566, 108330768, 115489569, 98423769, 108816571, 91070968, 101744355>>, 203444394>>,
   <<<<-150, 400>>, <<87777090, 90748821, 81790298, 90474352, 74316803, 87547222, 67722071, 82840708, 63860845, 77247538>>, 192956700>>,
   <<<<-150, 500>>, <<66694636, 70080166, 61384603, 70922034, 55605043, 69384494, 51047629, 66056505, 48814894, 61671447>>, 186225312>>,
   <<<<-106, -106>>, <<-230024991, -233766690, -224206159, -234280491, -217366439, -230609057, -210467005, -222822956, -204462640, -212986246>>, -235619449>>,
   <<<<-100, -500>>, <<-66140739, -60990206, -69447643, -55400217, -70296962, -50992488, -68829889, -48829157, -65608551, -49131446>>, -176819189>>,
   <<<<-100, -400>>, <<-86463744, -80726493, -89376935, -73632274, -89196867, -67390563, -86452592, -63731659, -81968158, -63196191>>, -181577499>>,
   <<<<-100, -300>>, <<-119267178, -114151004, -120355051, -105803830, -117975766, -96801571, -113163931, -90157243, -106966315, -87431288>>, -189254688>>,
   <<<<-100, -200>>, <<-169270886, -168167222, -166405556, -162236219, -160854904, -152281062, -153805592, -141552761, -146290038, -133884760>>, -203444394>>,
   <<<<-100, -100>>, <<-232128480, -235806868, -226501264, -236455020, -219937854, -233186172, -213375046, -226040976, -207749692, -216838398>>, -235619449>>,
   <<<<-100, 100>>, <<232128480, 226501264, 235806868, 219937854, 236455020, 213375046, 233186172, 207749692, 226040976, 204074551>>, 235619449>>,
   <<<<-100, 200>>, <<169270886, 166405556, 168167222, 160854904, 162236219, 153805592, 152281062, 146290038, 141552761, 139281487>>, 203444394>>,
   <<<<-100, 300>>, <<119267178, 120355051, 114151004, 117975766, 105803830, 113163931, 96801571, 106966315, 90157243, 100343083>>, 189254688>>,
   <<<<-100, 400>>, <<86463744, 89376935, 80726493, 89196867, 73632274, 86452592, 67390563, 81968158, 63731659, 76605797>>, 181577499>>,
   <<<<-100, 500>>, <<66140739, 69447643, 60990206, 70296962, 55400217, 68829889, 50992488, 65608551, 48829157, 61345653>>, 176819189>>,
   <<<<-59, -59>>, <<-238596822, -239936379, -236541357, -240240725, -234182972, -239368898, -231967310, -237447450, -230325135, -234902864>>, -235619449>>,
   <<<<-50, -500>>, <<-64338175, -59354484, -67596425, -54000739, -68505096, -49811655, -67166113, -47784525, -64103743, -48125230>>, -167046498>>,
   <<<<-50, -400>>, <<-82881159, -77342603, -85839624, -70661334, -85871481, -64882512, -83415199, -61564888, -79233100, -61183833>>, -169515132>>,
   <<<<-50, -300>>, <<-111654519, -106470885, -113202052, -98637729, -111434029, -90582397, -107237663, -84872140, -101591276, -82746560>>, -173594500>>,
   <<<<-50, -200>>, <<-153976486, -151667713, -152455331, -145225435, -148120413, -136031860, -142069363, -127155887, -135304278, -121448438>>, -181577499>>,
   <<<<-50, -100>>, <<-206216237, -207680402, -202717951, -206456368, -197988725, -202386609, -192840399, -196259856, -188075391, -189838200>>, -203444394>>,
   <<<<-50, 100>>, <<206216237, 202717951, 207680402, 197988725, 206456368, 192840399, 202386609, 188075391, 196259856, 184504972>>, 203444394>>,
   <<<<-50, 200>>, <<153976486, 152455331, 151667713, 148120413, 145225435, 142069363, 136031860, 135304278, 127155887, 128761765>>, 181577499>>,
   <<<<-50, 300>>, <<111654519, 113202052, 106470885, 111434029, 98637729, 107237663, 90582397, 101591276, 84872140, 95420936>>, 173594500>>,
   <<<<-50, 400>>, <<82881159, 85839624, 77342603, 85871481, 70661334, 83415199, 64882512, 79233100, 61564888, 74151452>>, 169515132>>,
   <<<<-50, 500>>, <<64338175, 67596425, 59354484, 68505096, 54000739, 67166113, 49811655, 64103743, 47784525, 60003721>>, 167046498>>,
   <<<<-46, -143>>, <<-181206336, -181249828, -178121185, -177541742, -172999646, -170387206, -166826777, -161735412, -160521989, -154470844>>, -188495559>>,
   <<<<-46, 143>>, <<181206336, 178121185, 181249828, 172999646, 177541742, 166826777, 170387206, 160521989, 161735412, 154994177>>, 188495559>>,
   <<<<-29, -88>>, <<-193504259, -194016372, -191403173, -192642753, -188234588, -189515522, -184606878, -185336138, -181151177, -181230386>>, -188495559>>,
   <<<<-29, 88>>, <<193504259, 191403173, 194016372, 188234588, 192642753, 184606878, 189515522, 181151177, 185336138, 178491081>>, 188495559>>,
   <<<<0, -500>>, <<-61466295, -56654589, -64697113, -51569367, -65702946, -47647432, -64534959, -45805165, -61670908, -46220921>>, -157079633>>,
   <<<<0, -400>>, <<-77479785, -72112315, -80545317, -65863679, -80864040, -60610155, -78765819, -57716956, -74940335, -57568131>>, -157079633>>,
   <<<<0, -300>>, <<-100860958, -95510205, -102997733, -88145772, -101964810, -81056295, -98476397, -76367559, -93430978, -74974563>>, -157079633>>,
   <<<<0, -200>>, <<-132581766, -128843068, -132647461, -121784880, -129701289, -113343435, -124720045, -106308531, -118674872, -102603015>>, -157079633>>,
   <<<<0, -100>>, <<-162075472, -161173365, -160818151, -158034727, -157891763, -153269298, -153953828, -148162882, -149705458, -144162390>>, -157079633>>,
   <<<<0, 100>>, <<162075472, 160818151, 161173365, 157891763, 158034727, 153953828, 153269298, 149705458, 148162882, 145853152>>, 157079633>>,
   <<<<0, 200>>, <<132581766, 132647461, 128843068, 129701289, 121784880, 124720045, 113343435, 118674872, 106308531, 112476843>>, 157079633>>,
   <<<<0, 300>>, <<100860958, 102997733, 95510205, 101964810, 88145772, 98476397, 81056295, 93430978, 76367559, 87716903>>, 157079633>>,
   <<<<0, 400>>, <<77479785, 80545317, 72112315, 80864040, 65863679, 78765819, 60610155, 74940335, 57716956, 70172311>>, 157079633>>,
   <<<<0, 500>>, <<61466295, 64697113, 56654589, 65702946, 51569367, 64534959, 47647432, 61670908, 45805165, 57764201>>, 157079633>>,
   <<<<16, -101>>, <<-146121728, -144391304, -145536672, -140472223, -143038836, -135258738, -139268545, -130227607, -134935053, -126767623>>, -141371669>>,
   <<<<16, 101>>, <<146121728, 145536672, 144391304, 143038836, 140472223, 139268545, 135258738, 134935053, 130227607, 130757673>>, 141371669>>,
   <<<<23, -148>>, <<-134062952, -130759717, -134027740, -124439056, -131228075, -116774900, -126549199, -110217004, -120899882, -106568462>>, -141371669>>,
   <<<<23, 148>>, <<134062952, 134027740, 130759717, 131228075, 124439056, 126549199, 116774900, 120899882, 110217004, 115151323>>, 141371669>>,
   <<<<50, -500>>, <<-57780300, -53146593, -60992932, -48349780, -62116885, -44723038, -61146193, -43094062, -58506026, -43606901>>, -147112767>>,
   <<<<50, -400>>, <<-70859707, -65663824, -74048363, -59860688, -74683593, -55154796, -72977440, -52716160, -69538137, -52831059>>, -144644133>>,
   <<<<50, -300>>, <<-88299745, -82826853, -91019169, -75973382, -90748267, -69849022, -88004284, -66160257, -83588197, -65493962>>, -140564765>>,
   <<<<50, -200>>, <<-108262505, -103271121, -109931078, -95970072, -108468944, -88590001, -104654629, -83408832, -99402345, -81527819>>, -132581766>>,
   <<<<50, -100>>, <<-113565716, -109901244, -114624527, -104334823, -113209093, -98423579, -109910488, -93902029, -105475659, -91832411>>, -110714872>>,
   <<<<50, 0>>, <<0, 0, 0, 0, 0, 0, 0, 0, 0, 0>>, 0>>,
   <<<<50, 100>>, <<113565716, 114624527, 109901244, 113209093, 104334823, 109910488, 98423579, 105475659, 93902029, 100674753>>, 110714872>>,
   <<<<50, 200>>, <<108262505, 109931078, 103271121, 108468944, 95970072, 104654629, 88590001, 99402345, 83408832, 93601809>>, 132581766>>,
   <<<<50, 300>>, <<88299745, 91019169, 82826853, 90748267, 75973382, 88004284, 69849022, 83588197, 66160257, 78342937>>, 140564765>>,
   <<<<50, 400>>, <<70859707, 74048363, 65663824, 74683593, 59860688, 72977440, 55154796, 69538137, 52716160, 65103221>>, 144644133>>,
   <<<<50, 500>>, <<57780300, 60992932, 53146593, 62116885, 48349780, 61146193, 44723038, 58506026, 43094062, 54813100>>, 147112767>>,
   <<<<65, -90>>, <<-96973807, -92642533, -98881106, -86883532, -98249841, -81370555, -95545432, -77652086, -91471104, -76469946>>, -94247780>>,
   <<<<65, 90>>, <<96973807, 98881106, 92642533, 98249841, 86883532, 95545432, 81370555, 91471104, 77652086, 86785007>>, 94247780>>,
   <<<<88, -121>>, <<-88442872, -82887909, -91193536, -75923866, -90908600, -69704940, -88121102, -65969298, -83645657, -65305262>>, -94247780>>,
   <<<<88, 121>>, <<88442872, 91193536, 82887909, 90908600, 75923866, 88121102, 69704940, 83645657, 65969298, 78334343>>, 94247780>>,
   <<<<100, -500>>, <<-53567106, -49118566, -56759354, -44619247, -58006131, -41297441, -57242927, -39891409, -54838967, -40509022>>, -137340077>>,
   <<<<100, -400>>, <<-63653276, -58649175, -66943759, -53295751, -67885103, -49126776, -66571815, -47130213, -63525275, -47501964>>, -132581766>>,
   <<<<100, -300>>, <<-75444426, -69979798, -78631716, -63701403, -79057465, -58496342, -77032885, -55701307, -73244122, -55661897>>, -124904577>>,
   <<<<100, -200>>, <<-85056352, -79354687, -88009252, -72373350, -87912977, -66276950, -85266930, -62738754, -80877158, -62271390>>, -110714872>>,
   <<<<100, -100>>, <<-75276597, -69390703, -78695784, -62640018, -79145855, -57096666, -76990148, -54188562, -72974698, -54234294>>, -78539816>>,
   <<<<100, 0>>, <<0, 4721131, -4721131, 8143767, -8143767, 9519955, -9519955, 8776132, -8776132, 6301097>>, 0>>,
   <<<<100, 100>>, <<75276597, 78695784, 69390703, 79145855, 62640018, 76990148, 57096666, 72974698, 54188562, 67931209>>, 78539816>>,
   <<<<100, 200>>, <<85056352, 88009252, 79354687, 87912977, 72373350, 85266930, 66276950, 80877158, 62738754, 75596266>>, 110714872>>,
   <<<<100, 300>>, <<75444426, 78631716, 69979798, 79057465, 63701403, 77032885, 58496342, 73244122, 55701307, 68478043>>, 124904577>>,
   <<<<100, 400>>, <<63653276, 66943759, 58649175, 67885103, 53295751, 66571815, 49126776, 63525275, 47130213, 59430792>>, 132581766>>,
   <<<<100, 500>>, <<53567106, 56759354, 49118566, 58006131, 44619247, 57242927, 41297441, 54838967, 39891409, 51371043>>, 137340077>>,
   <<<<107, -54>>, <<-47714349, -41738489, -52130097, -35951745, -53988071, -32004623, -53219191, -30696766, -50337191, -31945180>>, -47123890>>,
   <<<<107, 54>>, <<47714349, 52130097, 41738489, 53988071, 35951745, 53219191, 32004623, 50337191, 30696766, 46079156>>, 47123890>>,
   <<<<129, 0>>, <<0, 6042769, -6042769, 10325818, -10325818, 11931916, -11931916, 10883693, -10883693, 7753191>>, 0>>,
   <<<<134, -68>>, <<-43933327, -37430410, -48850279, -31299096, -51030563, -27294561, -50371839, -26170214, -47423776, -27736200>>, -47123890>>,
   <<<<134, 68>>, <<43933327, 48850279, 37430410, 51030563, 31299096, 50371839, 27294561, 47423776, 26170214, 42972166>>, 47123890>>,
   <<<<150, -500>>, <<-49102897, -44846364, -52264199, -40644179, -53625350, -37622237, -53066096, -36433765, -50899054, -37152229>>, -127933953>>,
   <<<<150, -400>>, <<-56414376, -51628411, -59763215, -46716485, -60971567, -43048730, -60025407, -41453147, -57358361, -42049840>>, -121202566>>,
   <<<<150, -300>>, <<-63452866, -58137835, -66941320, -52465048, -67934290, -48082785, -66550215, -46027211, -63351230, -46473156>>, -110714872>>,
   <<<<150, -200>>, <<-65685909, -59852252, -69416275, -53552782, -70364904, -48672520, -68734406, -46382200, -65178724, -46850579>>, -92729522>>,
   <<<<150, -100>>, <<-50193026, -43776965, -54829515, -37489717, -56664072, -33169256, -55697631, -31700028, -52526535, -32980065>>, -58800260>>,
   <<<<150, 0>>, <<0, 6231773, -6231773, 10634353, -10634353, 12268408, -12268408, 11174258, -11174258, 7951700>>, 0>>,
   <<<<150, 100>>, <<50193026, 54829515, 43776965, 56664072, 37489717, 55697631, 33169256, 52526535, 31700028, 47947879>>, 58800260>>,
   <<<<150, 200>>, <<65685909, 69416275, 59852252, 70364904, 53552782, 68734406, 48672520, 65178724, 46382200, 60486235>>, 92729522>>,
   <<<<150, 300>>, <<63452866, 66941320, 58137835, 67934290, 52465048, 66550215, 48082785, 63351230, 46027211, 59058119>>, 110714872>>,
   <<<<150, 400>>, <<56414376, 59763215, 51628411, 60971567, 46716485, 60025407, 43048730, 57358361, 41453147, 53599971>>, 121202566>>,
   <<<<150, 500>>, <<49102897, 52264199, 44846364, 53625350, 40644179, 53066096, 37622237, 50899054, 36433765, 47659137>>, 127933953>>,
   <<<<200, -500>>, <<-44621608, -40561758, -47737079, -36648437, -49195343, -33910555, -48826281, -32923900, -46887647, -33731477>>, -119028995>>,
   <<<<200, -400>>, <<-49548615, -45002168, -52905711, -40510366, -54326917, -37292564, -53704889, -36042326, -51389206, -36820409>>, -110714872>>,
   <<<<200, -300>>, <<-52969643, -47907227, -56597119, -42821729, -58005685, -39136085, -57152282, -37657407, -54477523, -38448017>>, -98279372>>,
   <<<<200, -200>>, <<-50780116, -45178692, -54839882, -39641241, -56465467, -35741039, -55613196, -34304685, -52774661, -35323632>>, -78539816>>,
   <<<<200, -100>>, <<-34819268, -28725299, -39738065, -23269774, -42255695, -19936987, -42097473, -19287604, -39672126, -21079185>>, -46364761>>,
   <<<<200, 0>>, <<0, 5959434, -5959434, 10189500, -10189500, 11782891, -11782891, 10754740, -10754740, 7664964>>, 0>>,
   <<<<200, 100>>, <<34819268, 39738065, 28725299, 42255695, 23269774, 42097473, 19936987, 39672126, 19287604, 35684435>>, 46364761>>,
   <<<<200, 200>>, <<50780116, 54839882, 45178692, 56465467, 39641241, 55613196, 35741039, 52774661, 34304685, 48654284>>, 78539816>>,
   <<<<200, 300>>, <<52969643, 56597119, 47907227, 58005685, 42821729, 57152282, 39136085, 54477523, 37657407, 50630272>>, 98279372>>,
   <<<<200, 400>>, <<49548615, 52905711, 45002168, 54326917, 40510366, 53704889, 37292564, 51389206, 36042326, 47952284>>, 110714872>>,
   <<<<200, 500>>, <<44621608, 47737079, 40561758, 49195343, 36648437, 48826281, 33910555, 46887647, 32923900, 43871854>>, 119028995>>,
   <<<<250, -500>>, <<-40298860, -36436964, -43352934, -32798204, -44886611, -30321887, -44687576, -29515439, -42962352, -30396290>>, -110714872>>,
   <<<<250, -400>>, <<-43297782, -39001870, -46617589, -34898584, -48194452, -32073022, -47845784, -31109178, -45844462, -32023599>>, -101219701>>,
   <<<<250, -300>>, <<-44178824, -39422026, -47819477, -34870821, -49503959, -31752806, -49066099, -30706983, -46837015, -31725054>>, -87605805>>,
   <<<<250, -200>>, <<-39717572, -34499584, -43818973, -29651936, -45825784, -26484720, -45522198, -25605398, -43255343, -26919964>>, -67474094>>,
   <<<<250, -100>>, <<-25245730, -19682849, -30031606, -14961552, -32797976, -12294671, -33116368, -12076572, -31240299, -14032587>>, -38050638>>,
   <<<<250, 0>>, <<0, 5449067, -5449067, 9350925, -9350925, 10861311, -10861311, 9953622, -9953622, 7115061>>, 0>>,
   <<<<250, 100>>, <<25245730, 30031606, 19682849, 32797976, 14961552, 33116368, 12294671, 31240299, 12076572, 27772290>>, 38050638>>,
   <<<<250, 200>>, <<39717572, 43818973, 34499584, 45825784, 29651936, 45522198, 26484720, 43255343, 25605398, 39640597>>, 67474094>>,
   <<<<250, 300>>, <<44178824, 47819477, 39422026, 49503959, 34870821, 49066099, 31752806, 46837015, 30706983, 43393235>>, 87605805>>,
   <<<<250, 400>>, <<43297782, 46617589, 39001870, 48194452, 34898584, 47845784, 32073022, 45844462, 31109178, 42706733>>, 101219701>>,
   <<<<250, 500>>, <<40298860, 43352934, 36436964, 44886611, 32798204, 44687576, 30321887, 42962352, 29515439, 40161491>>, 110714872>>,
   <<<<300, -500>>, <<-36250286, -32583883, -39229234, -29201388, -40815746, -26960910, -40763594, -26310826, -39232941, -27247948>>, -103037683>>,
   <<<<300, -400>>, <<-37765332, -33720263, -41012363, -29968266, -42692638, -27477835, -42566323, -26745289, -40839067, -27755459>>, -92729522>>,
   <<<<300, -300>>, <<-36979312, -32541791, -40549644, -28457576, -42398620, -25792698, -42273170, -25064519, -40411746, -26221987>>, -78539816>>,
   <<<<300, -200>>, <<-31567616, -26762682, -35558575, -22491709, -37748410, -19861640, -37813908, -19341132, -35986361, -20797637>>, -58800260>>,
   <<<<300, -100>>, <<-19028407, -13988896, -23539436, -9849857, -26338113, -7632367, -26924194, -7642317, -25438868, -9610201>>, -32175055>>,
   <<<<300, 0>>, <<0, 4949722, -4949722, 8524251, -8524251, 9944623, -9944623, 9150408, -9150408, 6560570>>, 0>>,
   <<<<300, 100>>, <<19028407, 23539436, 13988896, 26338113, 9849857, 26924194, 7632367, 25438868, 7642317, 22393041>>, 32175055>>,
   <<<<300, 200>>, <<31567616, 35558575, 26762682, 37748410, 22491709, 37813908, 19861640, 35986361, 19341132, 32797696>>, 58800260>>,
   <<<<300, 300>>, <<36979312, 40549644, 32541791, 42398620, 28457576, 42273170, 25792698, 40411746, 25064519, 37322554>>, 78539816>>,
   <<<<300, 400>>, <<37765332, 41012363, 33720263, 42692638, 29968266, 42566323, 27477835, 40839067, 26745289, 37973830>>, 92729522>>,
   <<<<300, 500>>, <<36250286, 39229234, 32583883, 40815746, 29201388, 40763594, 26960910, 39232941, 26310826, 36634167>>, 103037683>>}

\* the relative positions the table covers, and the row of one
KnownRel == {row[1] : row \in KnownRows}
KnownRow(rel) == CHOOSE row \in KnownRows : row[1] = rel

---------------------------------------------------------------------------
(* The data model: Map, Node, Segment, Reaction *)

\* AutoReaction.__init__: unit
UNIT == 50

\* the program state the operations below transform
World == [nodes |-> nodes, segs |-> segs, rxns |-> rxns, maps |-> maps]

\* Node.__init__ and the constructors of its subclasses
NewNode(type, pos, label, primary) ==
  [node_type |-> type, identifier |-> None, pos |-> pos, label |-> label,
   node_is_primary |-> primary]

\* Segment.__init__
NewSegment(from, to, b1, b2) ==
  [identifier |-> None, from_node |-> from, to_node |-> to, b1 |-> b1, b2 |-> b2]

\* Map.__init__: empty registries, counters at 0
NewMap ==
  [nodes |-> <<>>, segments |-> <<>>, reactions |-> <<>>,
   node_counter |-> 0, segment_counter |-> 0, reaction_counter |-> 0]

\* while counter in registry: counter += 1
RECURSIVE FirstUnused(_, _)
FirstUnused(registry, counter) ==
  IF counter \in DOMAIN registry THEN FirstUnused(registry, counter + 1) ELSE counter

\* registry[key] = obj
Put(registry, key, obj) ==
  [k \in DOMAIN registry \cup {key} |-> IF k = key THEN obj ELSE registry[k]]

\* Map.add_node
MapAddNode(w, m, n) ==
  IF n = NoRef \/ w.nodes[n].identifier # None
    THEN w
    ELSE LET c == FirstUnused(w.maps[m].nodes, w.maps[m].node_counter)
         IN  [w EXCEPT !.nodes[n].identifier = c,
                       !.maps[m].nodes = Put(@, c, n),
                       !.maps[m].node_counter = c + 1]

\* Map.add_segment
MapAddSegment(w, m, s) ==
  LET c == FirstUnused(w.maps[m].segments, w.maps[m].segment_counter)
  IN  [w EXCEPT !.segs[s].identifier = c,
                !.maps[m].segments = Put(@, c, s),
                !.maps[m].segment_counter = c + 1]

\* for x in xs: self.add_node(x) / self.add_segment(x)
RECURSIVE MapAddNodes(_, _, _)
MapAddNodes(w, m, ns) ==
  IF ns = <<>> THEN w ELSE MapAddNodes(MapAddNode(w, m, Head(ns)), m, Tail(ns))

RECURSIVE MapAddSegments(_, _, _)
MapAddSegments(w, m, ss) ==
  IF ss = <<>> THEN w ELSE MapAddSegments(MapAddSegment(w, m, Head(ss)), m, Tail(ss))

\* Map.add_reaction
MapAddReaction(w, m, r) ==
  LET c  == FirstUnused(w.maps[m].reactions, w.maps[m].reaction_counter)
      w1 == [w EXCEPT !.rxns[r].identifier = c,
                      !.rxns[r].map = m,
                      !.maps[m].reactions = Put(@, c, r),
                      !.maps[m].reaction_counter = c + 1]
      rx == w1.rxns[r]
      w2 == MapAddNodes(w1, m, [k \in 1..Len(rx.metabolites) |-> rx.metabolites[k][2]])
      w3 == MapAddNodes(w2, m, <<rx.mid_marker, rx.multi_markers[1], rx.multi_markers[2]>>)
  IN  MapAddSegments(w3, m, rx.segments)

\* allocation of a fresh object on its heap; the new reference is the length
AllocNode(w, rec) == [w EXCEPT !.nodes = Append(@, rec)]
AllocSeg(w, rec) == [w EXCEPT !.segs = Append(@, rec)]

\* Reaction.add_segment, for a segment object s already allocated
ReactionAddSegment(w, r, s) ==
  LET w1 == IF w.rxns[r].map # NoRef THEN MapAddSegment(w, w.rxns[r].map, s) ELSE w
  IN  [w1 EXCEPT !.rxns[r].segments = Append(@, s)]

\* Reaction._add_multi_marker_segments; multi_markers is <<minus, plus>>
AddMultiMarkerSegments(w, r) ==
  LET rx == w.rxns[r]
      w1 == IF rx.multi_markers[1] # NoRef
              THEN LET a == AllocSeg(w, NewSegment(rx.multi_markers[1], rx.mid_marker, NoPos, NoPos))
                   IN  ReactionAddSegment(a, r, Len(a.segs))
              ELSE w
  IN  IF rx.multi_markers[2] # NoRef
        THEN LET a == AllocSeg(w1, NewSegment(rx.mid_marker, rx.multi_markers[2], NoPos, NoPos))
             IN  ReactionAddSegment(a, r, Len(a.segs))
        ELSE w1

\* Reaction.__init__: the new reaction is the last object of w.rxns
ReactionInit(w, auto, q, mid, minus, plus) ==
  LET rec == [identifier |-> None, map |-> NoRef, auto |-> auto, q |-> q,
              mid_marker |-> mid, multi_markers |-> <<minus, plus>>,
              metabolites |-> <<>>, segments |-> <<>>,
              used_deltas |-> <<<<>>, <<>>>>, how |-> <<<<>>, <<>>>>]
      w1  == [w EXCEPT !.rxns = Append(@, rec)]
  IN  AddMultiMarkerSegments(w1, Len(w1.rxns))

\* the position AutoReaction.__init__ gives the multi-marker of side pm
\* (0 minus, 1 plus): mid_marker + unit * (cos, sin)(angle [+ pi])
MultiMarkerPos(midpos, q, pm) == VAdd(midpos, Rot(<<UNIT, 0>>, q + 2 * (1 - pm)))

\* AutoReaction.__init__, one side: None makes a MultiMarkerNode on the axis,
\* the mid-marker itself means no multi-marker; yields <<world, marker>>
ResolveMultiMarker(w, mid, q, pm, arg) ==
  IF arg = NoRef
    THEN LET a == AllocNode(w, NewNode("multimarker",
                                       MultiMarkerPos(w.nodes[mid].pos, q, pm), NoPos, FALSE))
         IN  <<a, Len(a.nodes)>>
    ELSE IF arg = mid THEN <<w, NoRef>> ELSE <<w, arg>>

\* AutoReaction.__init__
AutoReactionInit(w, q, mid, minus, plus) ==
  LET m0 == ResolveMultiMarker(w, mid, q, 0, minus)
      m1 == ResolveMultiMarker(m0[1], mid, q, 1, plus)
  IN  ReactionInit(m1[1], TRUE, q, mid, m0[2], m1[2])

---------------------------------------------------------------------------
(* Metabolite placement: Reaction.add_metabolite, AutoReaction.add_metabolite *)

\* range(10) of the slot search
NSLOTS == 10

\* b1_b2 = None, and b1_b2 = (None, None)
NoB == <<>>
StraightB == <<NoPos, NoPos>>

\* plus_minus = coefficient > 0, as the index False = 0 / True = 1
PlusMinus(coef) == IF coef > 0 THEN 1 ELSE 0

\* a reference node that ignores the multi-markers (mutation of RefNode)
RefNodeMidOnly(rx, pm) == rx.mid_marker

\* ref_node: multi_markers[plus_minus] when it is not None, else the mid-marker
RefNode(rx, pm) ==
  IF rx.multi_markers[pm + 1] # NoRef THEN rx.multi_markers[pm + 1] ELSE rx.mid_marker

\* AutoReaction.alternating_side_placement: <<n, side, d>>; // and % floor
AlternatingSidePlacement(i) ==
  LET n    == 1 + ((i - 1) \div 2)
      side == (i - 1) % 2
  IN  <<n, side, IF side = 1 THEN n * DELTA ELSE -(n * DELTA)>>

\* quarter turns of the direction angle + (1 - plus_minus) * pi
SideTurns(rx, pm) == rx.q + 2 * (1 - pm)

\* node minus reference node in the frame of the side
RelPos(w, rx, ref, n, pm) ==
  Rot(VSub(w.nodes[n].pos, w.nodes[ref].pos), 4 - (SideTurns(rx, pm) % 4))

\* AutoReaction.calculate_placement for slot i (the fixed placement passes
\* angle_delta = 0 and n = 0, which is slot 0).  zero: size = 0, where
\* 1.5 / size raises ZeroDivisionError.  Computed control points are kept
\* as the terms <<"b", 1 or 2, ref, node, i>>.
CalculatePlacement(w, rx, ref, n, pm, i, b) ==
  LET node  == w.nodes[n]
      known == node.pos # NoPos
      rel   == IF known THEN RelPos(w, rx, ref, n, pm)
                        ELSE SlotOffsetTable[node.node_is_primary][i + 1]
      zero  == known /\ rel = <<0, 0>>
  IN  [pos  |-> IF known THEN node.pos
                         ELSE VAdd(w.nodes[ref].pos, Rot(rel, SideTurns(rx, pm))),
       zero |-> zero,
       b1   |-> IF b # NoB THEN b[1] ELSE <<"b", 1, ref, n, i>>,
       b2   |-> IF b # NoB THEN b[2] ELSE <<"b", 2, ref, n, i>>,
       eff  |-> IF zero THEN 0
                ELSE IF known
                  THEN IF b = NoB THEN KnownRow(rel)[2][i + 1] ELSE KnownRow(rel)[3]
                  ELSE IF b = NoB THEN EffSlotTable[node.node_is_primary][i + 1]
                                  ELSE AlternatingSidePlacement(i)[3]]

\* a collision test that finds every candidate free (mutation of Collides)
NeverCollides(used, e) == FALSE

\* a collision test without the tolerance (mutation of Collides)
CollidesExact(used, e) == \E k \in 1..Len(used) : used[k] = e

\* any(abs(d - effective_angle_delta) < delta_tolerance * delta for d in used),
\* delta_tolerance = 0.5
Collides(used, e) == \E k \in 1..Len(used) : 2 * Abs(used[k] - e) < DELTA

\* for i in range(10): ... if not any(...): break
RECURSIVE SlotSearch(_, _, _, _, _, _, _)
SlotSearch(w, rx, ref, n, pm, b, i) ==
  LET c    == CalculatePlacement(w, rx, ref, n, pm, i, b)
      coll == Collides(rx.used_deltas[pm + 1], c.eff)
  IN  IF c.zero \/ ~coll \/ i = NSLOTS - 1
        THEN [c |-> c, i |-> i, side |-> AlternatingSidePlacement(i)[2],
              how |-> IF coll THEN "last" ELSE "slot"]
        ELSE SlotSearch(w, rx, ref, n, pm, b, i + 1)

\* a slot search that starts at candidate 1 (mutation of Placement)
PlacementSkipFirst(w, rx, ref, n, pm, b) ==
  IF w.nodes[n].pos # NoPos /\ b # NoB
    THEN LET c == CalculatePlacement(w, rx, ref, n, pm, 0, b)
         IN  [c |-> c, i |-> 0, side |-> IF c.eff >= 0 THEN 1 ELSE 0, how |-> "fixed"]
    ELSE SlotSearch(w, rx, ref, n, pm, b, 1)

\* the branch of add_metabolite on a known position with control points
Placement(w, rx, ref, n, pm, b) ==
  IF w.nodes[n].pos # NoPos /\ b # NoB
    THEN LET c == CalculatePlacement(w, rx, ref, n, pm, 0, b)
         IN  [c |-> c, i |-> 0, side |-> IF c.eff >= 0 THEN 1 ELSE 0, how |-> "fixed"]
    ELSE SlotSearch(w, rx, ref, n, pm, b, 0)

\* label_x, label_y of add_metabolite: text_offset_f(v) = 20 + v * 12,
\* text_y_correction = 6, on the perpendicular angle +- 0.5 pi
LabelPos(rx, pos, side, pm) ==
  LET turn       == IF (side = 1) = (pm = 1) THEN 1 ELSE 3
      cs         == Rot(<<1, 0>>, rx.q + turn)
      x_positive == -Min(0, cs[1])
      off        == 20 + (x_positive * BiggLen) * 12
  IN  <<pos[1] + off * cs[1], pos[2] + off * cs[2] + 6>>

\* a label that is computed on every call (mutation of NewLabel)
NewLabelAlways(old, computed) == computed

\* if node.label_x is None or node.label_y is None: the computed label is
\* stored only on a node without one
NewLabel(old, computed) == IF old = NoPos THEN computed ELSE old

\* the tail both add_metabolite share: metabolites.append, map.add_node,
\* the directed Segment and add_segment
Attach(w, r, n, coef, ref, b1, b2) ==
  LET w1 == [w EXCEPT !.rxns[r].metabolites = Append(@, <<coef, n>>)]
      w2 == IF w1.rxns[r].map # NoRef THEN MapAddNode(w1, w1.rxns[r].map, n) ELSE w1
      w3 == AllocSeg(w2, IF PlusMinus(coef) = 1
                           THEN NewSegment(ref, n, b1, b2)
                           ELSE NewSegment(n, ref, b2, b1))
  IN  ReactionAddSegment(w3, r, Len(w3.segs))

\* Reaction.add_metabolite
ReactionAddMetabolite(w, r, n, coef) ==
  Attach(w, r, n, coef, RefNode(w.rxns[r], PlusMinus(coef)), NoPos, NoPos)

\* AutoReaction.add_metabolite after the placement p is decided: the
\* ZeroDivisionError of size = 0, or used_deltas.append, the node's x, y
\* and label, and the shared tail
AutoAddPlaced(w, r, n, coef, ref, p) ==
  IF p.c.zero
    THEN [w |-> w, err |-> "ZeroDivisionError", p |-> p]
    ELSE [w   |-> Attach([w EXCEPT
                            !.rxns[r].used_deltas[PlusMinus(coef) + 1] = Append(@, p.c.eff),
                            !.rxns[r].how[PlusMinus(coef) + 1] = Append(@, p.how),
                            !.nodes[n].pos = p.c.pos,
                            !.nodes[n].label =
                               NewLabel(@, LabelPos(w.rxns[r], p.c.pos, p.side,
                                                    PlusMinus(coef)))],
                         r, n, coef, ref, p.c.b1, p.c.b2),
          err |-> "",
          p   |-> p]

\* AutoReaction.add_metabolite; yields the world and the exception raised
AutoAddMetabolite(w, r, n, coef, b) ==
  AutoAddPlaced(w, r, n, coef, RefNode(w.rxns[r], PlusMinus(coef)),
                Placement(w, w.rxns[r], RefNode(w.rxns[r], PlusMinus(coef)), n,
                          PlusMinus(coef), b))

\* whether the tables cover placing node n on side pm of reaction r
Tabulated(w, r, n, pm) ==
  w.nodes[n].pos # NoPos =>
    RelPos(w, w.rxns[r], RefNode(w.rxns[r], pm), n, pm) \in KnownRel \cup {<<0, 0>>}

---------------------------------------------------------------------------
(* The operations of the data model as actions *)

MaxKeys == 3          \* registry counters stop growing here

NoOp == [op |-> "init", r |-> 0, n |-> 0, pm |-> 0, i |-> 0, how |-> ""]

Set(w) ==
  /\ nodes' = w.nodes
  /\ segs' = w.segs
  /\ rxns' = w.rxns
  /\ maps' = w.maps

MetRefs == 1..NumMets

\* the MetaboliteNode objects of the caller: no identifier, no position,
\* no label position; the first is a primary node, the others are not
CoreInit ==
  /\ nodes = [k \in MetRefs |-> NewNode("metabolite", NoPos, NoPos, k = 1)]
  /\ segs = <<>>
  /\ rxns = <<>>
  /\ maps = [m \in Maps |-> NewMap]
  /\ err = ""
  /\ last = NoOp
  /\ Aside

\* the caller's argument for one side: None, the mid-marker itself, or a
\* MultiMarkerNode the caller makes ("new")
MultiMarkerArg(w, mid, pm, arg) ==
  IF arg = "new"
    THEN LET a == AllocNode(w, NewNode("multimarker",
                                       MultiMarkerPos(w.nodes[mid].pos, 0, pm), NoPos, FALSE))
         IN  <<a, Len(a.nodes)>>
    ELSE <<w, IF arg = "mid" THEN mid ELSE NoRef>>

\* Reaction(...) or AutoReaction(...) around a new MidMarkerNode(0, 0), angle 0
Construct(auto, a0, a1) ==
  /\ Len(rxns) < MaxRxns
  /\ LET w0  == AllocNode(World, NewNode("midmarker", <<0, 0>>, NoPos, FALSE))
         mid == Len(w0.nodes)
         m0  == MultiMarkerArg(w0, mid, 0, a0)
         m1  == MultiMarkerArg(m0[1], mid, 1, a1)
     IN  Set(IF auto THEN AutoReactionInit(m1[1], 0, mid, m0[2], m1[2])
                     ELSE ReactionInit(m1[1], FALSE, 0, mid, m0[2], m1[2]))
  /\ err' = ""

AddNode(m, n) ==
  /\ maps[m].node_counter < MaxKeys
  /\ Set(MapAddNode(World, m, n))
  /\ err' = ""

AddSegment(m, s) ==
  /\ maps[m].segment_counter < MaxKeys
  /\ Set(MapAddSegment(World, m, s))
  /\ err' = ""

AddReaction(m, r) ==
  /\ maps[m].reaction_counter < MaxKeys
  /\ maps[m].segment_counter + Len(rxns[r].segments) <= MaxKeys
  /\ Set(MapAddReaction(World, m, r))
  /\ err' = ""

AddMetabolite(r, n, coef) ==
  /\ ~rxns[r].auto
  /\ rxns[r].map # NoRef => maps[rxns[r].map].segment_counter < MaxKeys
  /\ Set(ReactionAddMetabolite(World, r, n, coef))
  /\ err' = ""

\* the call's result becomes the state; the history keeps what it decided
AutoAdded(r, n, coef, res) ==
  /\ Set(res.w)
  /\ err' = res.err
  /\ last' = [op |-> "auto_add_metabolite", r |-> r, n |-> n,
              pm |-> PlusMinus(coef), i |-> res.p.i, how |-> res.p.how]

\* AutoReaction.add_metabolite(node, coefficient, b1_b2) with the default
\* placement options
AutoAdd(r, n, coef, b) ==
  /\ rxns[r].auto
  /\ rxns[r].map # NoRef => maps[rxns[r].map].segment_counter < MaxKeys
  /\ Tabulated(World, r, n, PlusMinus(coef))
  /\ AutoAdded(r, n, coef, AutoAddMetabolite(World, r, n, coef, b))

\* Map 1 is the map being built; map 2 is another map that may have
\* registered some of the caller's metabolite nodes.  A Reaction is given
\* its multi-markers by the caller or has none; an AutoReaction makes its
\* own unless the caller passes the mid-marker.
CoreNext ==
  \/ \E a0, a1 \in {"none", "new"} : Construct(FALSE, a0, a1) /\ UNCHANGED <<last, aside>>
  \/ \E a0, a1 \in {"none", "mid"} : Construct(TRUE, a0, a1) /\ UNCHANGED <<last, aside>>
  \/ \E m \in Maps, n \in MetRefs : AddNode(m, n) /\ UNCHANGED <<last, aside>>
  \/ \E s \in 1..Len(segs) : AddSegment(1, s) /\ UNCHANGED <<last, aside>>
  \/ \E r \in 1..Len(rxns) : AddReaction(1, r) /\ UNCHANGED <<last, aside>>
  \/ \E r \in 1..Len(rxns), n \in MetRefs, coef \in Coefs :
       /\ Len(rxns[r].metabolites) < MaxMets
       /\ AddMetabolite(r, n, coef)
       /\ UNCHANGED <<last, aside>>
  \/ \E r \in 1..Len(rxns), n \in MetRefs, coef \in Coefs :
       /\ Len(rxns[r].metabolites) < MaxMets
       /\ AutoAdd(r, n, coef, NoB)
       /\ UNCHANGED aside

Spec == CoreInit /\ [][CoreNext]_vars

---------------------------------------------------------------------------
(* The placement of metabolites on one AutoReaction *)

PlaceMets == 3        \* MetaboliteNode objects offered to the placement
PlaceAdds == 3        \* add_metabolite calls on the reaction

\* an AutoReaction around MidMarkerNode(0, 0) with angle 0, not added to a
\* map, and the caller's metabolite nodes (the first primary, the others not)
PlaceInit ==
  /\ \E a0, a1 \in {"none", "mid"} :
       LET w0  == [nodes |-> [k \in 1..PlaceMets |->
                                NewNode("metabolite", NoPos, NoPos, k = 1)],
                   segs |-> <<>>, rxns |-> <<>>, maps |-> [m \in Maps |-> NewMap]]
           w1  == AllocNode(w0, NewNode("midmarker", <<0, 0>>, NoPos, FALSE))
           mid == Len(w1.nodes)
           w2  == AutoReactionInit(w1, 0, mid, IF a0 = "mid" THEN mid ELSE NoRef,
                                   IF a1 = "mid" THEN mid ELSE NoRef)
       IN  /\ nodes = w2.nodes
           /\ segs = w2.segs
           /\ rxns = w2.rxns
           /\ maps = w2.maps
  /\ err = ""
  /\ last = NoOp
  /\ Aside

PlaceNext ==
  \E n \in 1..PlaceMets, coef \in Coefs, b \in {NoB, StraightB} :
    /\ Len(rxns[1].metabolites) < PlaceAdds
    /\ AutoAdd(1, n, coef, b)
    /\ UNCHANGED aside

SpecPlace == PlaceInit /\ [][PlaceNext]_vars

---------------------------------------------------------------------------
(* Claims about the placement of metabolites *)

Sides == {1, 2}       \* index of the minus side and of the plus side

Far(d, e) == 2 * Abs(d - e) >= DELTA

\* C1 as stated: on a reaction none of whose slot searches ran through all
\* 10 candidates, no two effective angular deltas recorded for the same
\* sign lie within delta_tolerance * delta of each other, whichever way the
\* metabolites were placed.
C1_AllDeltasApart ==
  \A r \in 1..Len(rxns) : \A pm \in Sides :
    (\A s \in Sides : \A k \in 1..Len(rxns[r].how[s]) : rxns[r].how[s][k] # "last")
      => \A j, k \in 1..Len(rxns[r].used_deltas[pm]) :
           j < k => Far(rxns[r].used_deltas[pm][j], rxns[r].used_deltas[pm][k])

\* C1 amended: an effective angular delta accepted by a slot search before
\* its 10 candidates ran out is not within delta_tolerance * delta of any
\* delta recorded earlier for the same sign.
C1_SlotDeltasApart ==
  \A r \in 1..Len(rxns) : \A pm \in Sides :
    \A k \in 1..Len(rxns[r].used_deltas[pm]) :
      rxns[r].how[pm][k] = "slot"
        => \A j \in 1..(k - 1) :
             Far(rxns[r].used_deltas[pm][j], rxns[r].used_deltas[pm][k])

\* a slot search passed over colliding candidates and accepted a later one
C1_Witness ==
  /\ last.op = "auto_add_metabolite"
  /\ last.how = "slot"
  /\ last.i > 0
  /\ Len(rxns[last.r].used_deltas[last.pm + 1]) >= 2

---------------------------------------------------------------------------
(* Claims about the registries of a Map *)

\* registry[k] is the object that carries k, no object sits under two keys,
\* and no two objects of the registry carry the same identifier
WellKeyed(registry, heap) ==
  /\ \A k \in DOMAIN registry : heap[registry[k]].identifier = k
  /\ \A j, k \in DOMAIN registry : registry[j] = registry[k] => j = k
  /\ \A j, k \in DOMAIN registry :
       registry[j] # registry[k]
         => heap[registry[j]].identifier # heap[registry[k]].identifier

\* an identifier once assigned stays
KeepsIdentifiers(heap, heapNext) ==
  \A o \in 1..Len(heap) :
    heap[o].identifier # None => heapNext[o].identifier = heap[o].identifier

\* C2 as stated: in the nodes, segments and reactions registry of a map every
\* key maps to an object whose identifier is that key, no object is
\* registered under two keys, and an identifier, once assigned, is never
\* changed nor given to a second object, also when an object or a reaction
\* is added again.
C2_Registries ==
  /\ [](\A m \in Maps : /\ WellKeyed(maps[m].nodes, nodes)
                        /\ WellKeyed(maps[m].segments, segs)
                        /\ WellKeyed(maps[m].reactions, rxns))
  /\ [][/\ KeepsIdentifiers(nodes, nodes')
        /\ KeepsIdentifiers(segs, segs')
        /\ KeepsIdentifiers(rxns, rxns')]_vars

\* the nodes a reaction references: its metabolite nodes, its mid-marker and
\* the multi-markers it has
NodesOf(rx) ==
  ({rx.metabolites[k][2] : k \in 1..Len(rx.metabolites)}
     \cup {rx.mid_marker, rx.multi_markers[1], rx.multi_markers[2]}) \ {NoRef}

Registered(registry, heap, o) ==
  /\ heap[o].identifier \in DOMAIN registry
  /\ registry[heap[o].identifier] = o

\* C3 as stated: once a reaction has been added to a map, every node it
\* references is in that map's nodes and every segment of it in that map's
\* segments, each under the identifier it carries, whatever identifier a node
\* carried before.
C3_ReactionRegistered ==
  \A r \in 1..Len(rxns) :
    rxns[r].map # NoRef =>
      /\ \A n \in NodesOf(rxns[r]) : Registered(maps[rxns[r].map].nodes, nodes, n)
      /\ \A k \in 1..Len(rxns[r].segments) :
           Registered(maps[rxns[r].map].segments, segs, rxns[r].segments[k])

\* the segments _add_multi_marker_segments made come first in rx.segments
NumMarkerSegments(rx) ==
  Cardinality({pm \in Sides : rx.multi_markers[pm] # NoRef})

\* C4: the segment of every metabolite of a reaction joins the metabolite
\* node and the multi-marker of the coefficient's sign when the reaction has
\* that multi-marker, and the mid-marker when it has not.
C4_SegmentEndpoint ==
  \A r \in 1..Len(rxns) :
    LET rx == rxns[r]
    IN  /\ Len(rx.segments) = NumMarkerSegments(rx) + Len(rx.metabolites)
        /\ \A k \in 1..Len(rx.metabolites) :
             LET coef == rx.metabolites[k][1]
                 seg  == segs[rx.segments[NumMarkerSegments(rx) + k]]
                 mm   == rx.multi_markers[IF coef > 0 THEN 2 ELSE 1]
                 want == IF mm # NoRef THEN mm ELSE rx.mid_marker
             IN  coef # 0 =>
                   {seg.from_node, seg.to_node} = {rx.metabolites[k][2], want}

\* an AutoReaction built with the mid-marker as its minus multi-marker
\* argument, holding a metabolite on the side without multi-marker and one
\* on the side with it
C4_Witness ==
  \E r \in 1..Len(rxns) :
    /\ rxns[r].auto
    /\ rxns[r].multi_markers[1] = NoRef
    /\ rxns[r].multi_markers[2] # NoRef
    /\ \E j, k \in 1..Len(rxns[r].metabolites) :
         rxns[r].metabolites[j][1] < 0 /\ rxns[r].metabolites[k][1] > 0

---------------------------------------------------------------------------
(* Pathway placement: pathway.py                                           *)
(* The backbone nodes of the model lie on one axis-parallel line, at       *)
(* coordinates that are multiples of 50: then dx or dy is 0, distance is   *)
(* |dx| + |dy|, the normal is a unit vector of the grid and atan2 yields a *)
(* whole number of quarter turns, all without rounding.                    *)

\* spacing: the default of alternating_pathways_sides, and the one
\* kgml_to_escher_map passes
PathSpacing == 200
KgmlSpacing == 100

\* reaction_info: the list of (coefficient, node)
InfoNodes(info) == [k \in 1..Len(info) |-> info[k][2]]

\* n.identifier in map.nodes
InMap(w, m, n) == w.nodes[n].identifier \in DOMAIN w.maps[m].nodes

\* while len(backbone_nodes) > 1: pop(1) while the first two share a sign
RECURSIVE PopSameSide(_)
PopSameSide(bb) ==
  IF Len(bb) > 1 /\ ((bb[1][1] > 0) = (bb[2][1] > 0))
    THEN PopSameSide(<<bb[1]>> \o SubSeq(bb, 3, Len(bb)))
    ELSE bb

\* math.atan2(to.y - from.y, to.x - from.x) in quarter turns
AxisTurns(from, to) ==
  LET d == VSub(to, from)
  IN  IF d[2] = 0 THEN (IF d[1] < 0 THEN 2 ELSE 0) ELSE (IF d[2] > 0 THEN 1 ELSE 3)

\* math.sqrt(dx**2 + dy**2) of two points on an axis-parallel line
Distance(p1, p2) == Abs(p2[1] - p1[1]) + Abs(p2[2] - p1[2])

\* mid_marker_xy of candidate i: center_point + (1 if side else -1) * f *
\* spacing * normal, with f = i // 2 (+ 0.5 when not centered)
Candidate(p1, p2, i, spacing, centered) ==
  LET d        == VSub(p2, p1)
      distance == Distance(p1, p2)
      normal   == <<(-d[2]) \div distance, d[1] \div distance>>
      twice_f  == 2 * (i \div 2) + (IF centered THEN 0 ELSE 1)
      off      == (IF i % 2 = 1 THEN 1 ELSE -1) * twice_f * (spacing \div 2)
  IN  <<p1[1] + d[1] \div 2 + off * normal[1],
        p1[2] + d[2] \div 2 + off * normal[2]>>

\* math.sqrt((x - node.x)**2 + (y - node.y)**2) < spacing * 0.99, squared
\* and divided by 100 (all coordinates are multiples of 10)
Near(p, c, spacing) ==
  LET d == VSub(c, p)
  IN  100 * (d[1] * d[1] + d[2] * d[2]) < 9801 * ((spacing * spacing) \div 100)

\* any(... < spacing*0.99 for node in mid_markers); mid_markers: positions
AnyNear(mids, c, spacing) == \E k \in 1..Len(mids) : Near(mids[k], c, spacing)

\* the while True loop of alternating_pathways_sides from candidate i on
RECURSIVE SearchFrom(_, _, _, _, _, _)
SearchFrom(p1, p2, mids, spacing, centered, i) ==
  LET c == Candidate(p1, p2, i, spacing, centered)
  IN  IF AnyNear(mids, c, spacing)
        THEN SearchFrom(p1, p2, mids, spacing, centered, i + 1)
        ELSE c

\* alternating_pathways_sides: dx / distance raises ZeroDivisionError when
\* the two nodes coincide
AlternatingPathwaysSides(p1, p2, mids, spacing, centered) ==
  IF Distance(p1, p2) = 0
    THEN [err |-> "ZeroDivisionError", xy |-> NoPos]
    ELSE [err |-> "",
          xy  |-> SearchFrom(p1, p2, mids, spacing, centered,
                             IF centered THEN 1 ELSE 0)]

\* a mid_markers list that leaves additional_mid_markers out (mutation of
\* MidMarkerList)
MapMidMarkersOnly(w, m, additional) ==
  LET reg   == w.maps[m].nodes
      inmap == {n \in {reg[k] : k \in DOMAIN reg} : w.nodes[n].node_type = "midmarker"}
      ord   == SelectSeq([n \in 1..Len(w.nodes) |-> n], LAMBDA n : n \in inmap)
  IN  [k \in 1..Len(ord) |-> w.nodes[ord[k]].pos]

\* the mid_markers list: the midmarker nodes of map.nodes.values(), then
\* additional_mid_markers; as positions
MidMarkerList(w, m, additional) ==
  LET reg    == w.maps[m].nodes
      inmap  == {n \in {reg[k] : k \in DOMAIN reg} : w.nodes[n].node_type = "midmarker"}
      ordmap == SelectSeq([n \in 1..Len(w.nodes) |-> n], LAMBDA n : n \in inmap)
  IN  [k \in 1..Len(ordmap) |-> w.nodes[ordmap[k]].pos]
        \o [k \in 1..Len(additional) |-> w.nodes[additional[k]].pos]

\* what is left of w1 when an exception ends the call entered in w0: the
\* objects of w0 as they are now; the objects made since are unreachable
Unwind(w0, w1) ==
  [w0 EXCEPT !.nodes = SubSeq(w1.nodes, 1, Len(w0.nodes))]

\* for coeff, met in reaction_info: reaction.add_metabolite(met, coeff),
\* from entry k on; stops at the first exception.  covered: the placement
\* tables hold every relative position met
RECURSIVE AddAll(_, _, _, _)
RECURSIVE AddAllNext(_, _, _, _)
AddAll(w, r, info, k) ==
  IF k > Len(info)
    THEN [w |-> w, err |-> "", covered |-> TRUE]
    ELSE IF ~Tabulated(w, r, info[k][2], PlusMinus(info[k][1]))
      THEN [w |-> w, err |-> "", covered |-> FALSE]
      ELSE AddAllNext(AutoAddMetabolite(w, r, info[k][2], info[k][1], NoB), r, info, k)

\* after add_metabolite of entry k returned or raised
AddAllNext(res, r, info, k) ==
  IF res.err # ""
    THEN [w |-> res.w, err |-> res.err, covered |-> TRUE]
    ELSE AddAll(res.w, r, info, k + 1)

\* place_reaction_on_backbone raises e
Raised(w, e) ==
  [w |-> w, err |-> e, r |-> NoRef, covered |-> TRUE, backbone |-> <<>>]

\* return reaction, or the exception of an add_metabolite
Returned(w, res, minus_node, plus_node) ==
  [w        |-> IF res.err # "" THEN Unwind(w, res.w) ELSE res.w,
   err      |-> res.err,
   r        |-> IF res.err # "" THEN NoRef ELSE Len(res.w.rxns),
   covered  |-> res.covered,
   backbone |-> <<minus_node, plus_node>>]

\* MidMarkerNode(*placement_f(...)), AutoReaction(mid_marker, angle) and
\* the add_metabolite loop
PlaceAt(w, info, minus_node, plus_node, xy) ==
  IF xy.err # ""
    THEN Raised(w, xy.err)
    ELSE Returned(w,
                  AddAll(AutoReactionInit(
                           AllocNode(w, NewNode("midmarker", xy.xy, NoPos, FALSE)),
                           AxisTurns(w.nodes[minus_node].pos, w.nodes[plus_node].pos),
                           Len(w.nodes) + 1, NoRef, NoRef),
                         Len(w.rxns) + 1, info, 1),
                  minus_node, plus_node)

\* from the backbone nodes selected on: the two ValueError, plus_node and
\* minus_node, the mid_markers list and placement_f(map, plus_node,
\* minus_node, mid_markers)
PlaceBetween(w, info, backbone_nodes, mid_markers, spacing, centered) ==
  IF Len(backbone_nodes) < 2
    THEN Raised(w, "ValueError: Two metabolite nodes should be present")
  ELSE IF (backbone_nodes[1][1] > 0) = (backbone_nodes[2][1] > 0)
    THEN Raised(w, "ValueError: The two nodes appear at the same side")
  ELSE
    LET plus_node  == backbone_nodes[IF backbone_nodes[1][1] > 0 THEN 1 ELSE 2][2]
        minus_node == backbone_nodes[IF backbone_nodes[1][1] > 0 THEN 2 ELSE 1][2]
    IN  PlaceAt(w, info, minus_node, plus_node,
                AlternatingPathwaysSides(w.nodes[plus_node].pos, w.nodes[minus_node].pos,
                                         mid_markers, spacing, centered))

\* place_reaction_on_backbone(map, name, bigg_id, reaction_info,
\* placement_f = alternating_pathways_sides with spacing and centered,
\* additional_mid_markers); r is the reaction returned
PlaceReactionOnBackbone(w, m, info, additional, spacing, centered) ==
  PlaceBetween(w, info, PopSameSide(SelectSeq(info, LAMBDA e : InMap(w, m, e[2]))),
               MidMarkerList(w, m, additional), spacing, centered)

\* the branch of kgml_to_escher_map for a reaction without line graphics:
\* m.add_node for every metabolite, then place_reaction_on_backbone with
\* the mid-markers of the reactions made so far and spacing = 100
KgmlPlaceReaction(w, m, info, made) ==
  PlaceReactionOnBackbone(MapAddNodes(w, m, InfoNodes(info)), m, info, made,
                          KgmlSpacing, TRUE)

---------------------------------------------------------------------------
(* The pathway placement as actions: a caller with three positioned        *)
(* metabolites on the line y = 200 and up to three MidMarkerNode objects   *)
(* of its own, which it registers in map 1 (the map of the placement) or   *)
(* passes as additional_mid_markers; map 2 is another map.  A behaviour    *)
(* sets the scene and ends with one placement.                             *)

\* positions of the caller's metabolites and of its mid-markers
PathSpots == <<<<200, 200>>, <<300, 200>>, <<500, 200>>>>
MidSpots == <<<<250, 200>>, <<250, 0>>, <<250, 400>>>>

PathMetRefs == 1..Len(PathSpots)

\* reaction_info lists: up to three metabolites, in the order of PathSpots
Infos ==
  {info \in UNION {[1..k -> Coefs \X PathMetRefs] : k \in 1..Len(PathSpots)} :
     \A j, k \in 1..Len(info) : j < k => info[j][2] < info[k][2]}

\* the MidMarkerNode objects of the caller, and those not in map 1
MidMarkerRefs == {n \in 1..Len(nodes) : nodes[n].node_type = "midmarker"}
Unregistered(m) ==
  SelectSeq([n \in 1..Len(nodes) |-> n],
            LAMBDA n : /\ n \in MidMarkerRefs
                       /\ n \notin {maps[m].nodes[k] : k \in DOMAIN maps[m].nodes})

PathInit ==
  /\ nodes = [k \in PathMetRefs |-> NewNode("metabolite", PathSpots[k], NoPos, TRUE)]
  /\ segs = <<>>
  /\ rxns = <<>>
  /\ maps = [m \in Maps |-> NewMap]
  /\ err = ""
  /\ last = NoOp
  /\ Aside

\* MidMarkerNode(x, y) made by the caller, in the order of MidSpots
NewMidMarker(k) ==
  /\ last = NoOp
  /\ Cardinality(MidMarkerRefs) = k - 1
  /\ nodes' = Append(nodes, NewNode("midmarker", MidSpots[k], NoPos, FALSE))
  /\ err' = ""
  /\ UNCHANGED <<segs, rxns, maps, last, aside>>

\* map.add_node(n) before the placement, in the order of creation
Register(m, n) ==
  /\ last = NoOp
  /\ \A n2 \in n..Len(nodes) : nodes[n2].identifier = None
  /\ Set(MapAddNode(World, m, n))
  /\ err' = ""
  /\ UNCHANGED <<last, aside>>

\* the placement res becomes the state; the history keeps the call, what
\* it decided and the registries of map 1 before it
Place(op, info, spacing, centered, additional, res) ==
  /\ res.covered
  /\ Set(res.w)
  /\ err' = res.err
  /\ last' = [op |-> op, info |-> info, spacing |-> spacing, centered |-> centered,
              additional |-> additional, r |-> res.r, backbone |-> res.backbone,
              before |-> maps[1]]

\* pathway.place_reaction_on_backbone(map 1, ..., reaction_info,
\* placement_f = partial(alternating_pathways_sides, centered = ...),
\* additional_mid_markers = None or the caller's unregistered mid-markers)
PlaceOnBackbone(info, centered, pass) ==
  /\ last = NoOp
  /\ Place("place_reaction_on_backbone", info, PathSpacing, centered,
           IF pass THEN Unregistered(1) ELSE <<>>,
           PlaceReactionOnBackbone(World, 1, info,
                                   IF pass THEN Unregistered(1) ELSE <<>>,
                                   PathSpacing, centered))
  /\ UNCHANGED aside

\* the state of kgml_to_escher_map between two reactions: m holds only
\* metabolite nodes, which no other map has registered, and the
\* mid-markers belong to the reactions made so far
InKgml ==
  /\ maps[2] = NewMap
  /\ \A k \in DOMAIN maps[1].nodes : maps[1].nodes[k] \notin MidMarkerRefs

\* kgml_to_escher_map, one reaction without line graphics
KgmlReaction(info) ==
  /\ last = NoOp
  /\ InKgml
  /\ Place("kgml_to_escher_map", info, KgmlSpacing, TRUE, Unregistered(1),
           KgmlPlaceReaction(World, 1, info, Unregistered(1)))
  /\ UNCHANGED aside

PathNext ==
  \/ \E k \in 1..Len(MidSpots) : NewMidMarker(k)
  \/ \E n \in 1..Len(nodes) : Register(1, n)
  \/ \E n \in PathMetRefs : Register(2, n)
  \/ \E info \in Infos, centered, pass \in BOOLEAN : PlaceOnBackbone(info, centered, pass)
  \/ \E info \in Infos : KgmlReaction(info)

SpecPath == PathInit /\ [][PathNext]_vars

---------------------------------------------------------------------------
(* Claims about the pathway placement *)

PlaceOps == {"place_reaction_on_backbone", "kgml_to_escher_map"}

\* C5 as stated: when the processing of a reaction fails (size = 0 in
\* add_metabolite, or a backbone precondition of place_reaction_on_backbone
\* as kgml_to_escher_map calls it), the node, segment and reaction
\* registries of the map are what they were before the processing began.
C5_FailureKeepsRegistries ==
  (last.op \in PlaceOps /\ err # "") =>
    /\ maps[1].nodes = last.before.nodes
    /\ maps[1].segments = last.before.segments
    /\ maps[1].reactions = last.before.reactions

\* the error kinds of the specification, as the messages the code raises
InsufficientBackboneNodes == "ValueError: Two metabolite nodes should be present"
SameSideBackbone == "ValueError: The two nodes appear at the same side"

\* the entries of reaction_info whose node map 1 holds under its identifier
RegisteredEntries ==
  SelectSeq(last.info, LAMBDA e : Registered(maps[1].nodes, nodes, e[2]))

\* the coefficient reaction_info gives node n
CoefOf(n) == (CHOOSE e \in {last.info[k] : k \in 1..Len(last.info)} : e[2] = n)[1]

\* C6 as stated: place_reaction_on_backbone fails with
\* InsufficientBackboneNodes when fewer than two metabolites of the reaction
\* are registered in the map, with SameSideBackbone when two or more are and
\* the registered ones all share a sign (so do the two selected); then no
\* reaction is built; when it succeeds the two backbone nodes are registered
\* in the map and have opposite signs.
C6_BackboneErrors ==
  last.op \in PlaceOps =>
    /\ Len(RegisteredEntries) < 2 => err = InsufficientBackboneNodes
    /\ (/\ Len(RegisteredEntries) >= 2
        /\ \A j, k \in 1..Len(RegisteredEntries) :
             (RegisteredEntries[j][1] > 0) = (RegisteredEntries[k][1] > 0))
         => err = SameSideBackbone
    /\ err \in {InsufficientBackboneNodes, SameSideBackbone}
         => last.r = NoRef /\ rxns = <<>>
    /\ err = "" =>
         /\ \A k \in 1..2 : Registered(maps[1].nodes, nodes, last.backbone[k])
         /\ CoefOf(last.backbone[1]) < 0
         /\ CoefOf(last.backbone[2]) > 0

MaxCandidates == 8    \* candidates of the offset search the claims look at

\* candidate k = 0, 1, 2, ... of the claim: offsets 0, 1, 1 on the other
\* side, 2, ... times spacing (not centered: 0.5, 0.5 on the other side,
\* 1.5, ...) from the midpoint of the backbone nodes along the normal of
\* the line from the plus node to the minus node, the negative side first
CandidatePoint(plus, minus, spacing, centered, k) ==
  LET distance == Distance(plus, minus)
      normal   == <<(plus[2] - minus[2]) \div distance, (minus[1] - plus[1]) \div distance>>
      halves   == IF centered THEN 2 * ((k + 1) \div 2) ELSE 2 * (k \div 2) + 1
      sign     == IF (k % 2 = 1) = centered THEN -1 ELSE 1
      off      == sign * halves * (spacing \div 2)
  IN  <<(plus[1] + minus[1]) \div 2 + off * normal[1],
        (plus[2] + minus[2]) \div 2 + off * normal[2]>>

\* at least 0.99 * spacing apart: 10000 * d^2 >= 9801 * spacing^2, both
\* sides divided by 100
FarApart(p, c, spacing) ==
  100 * ((c[1] - p[1]) * (c[1] - p[1]) + (c[2] - p[2]) * (c[2] - p[2]))
    >= 9801 * ((spacing * spacing) \div 100)

\* the positions of the mid-marker nodes registered in map 1 and of those
\* passed as additional_mid_markers
MidMarkerSpots ==
  {nodes[maps[1].nodes[k]].pos :
     k \in {j \in DOMAIN maps[1].nodes : nodes[maps[1].nodes[j]].node_type = "midmarker"}}
    \cup {nodes[last.additional[k]].pos : k \in 1..Len(last.additional)}

FarFromAll(c) == \A p \in MidMarkerSpots : FarApart(p, c, last.spacing)

\* candidate k of the placement the history holds
LastCandidate(k) ==
  CandidatePoint(nodes[last.backbone[2]].pos, nodes[last.backbone[1]].pos,
                 last.spacing, last.centered, k)

\* C7: the mid-marker of a reaction place_reaction_on_backbone returns is
\* the first candidate that is at least 0.99 * spacing from every
\* mid-marker node of the map and every additional mid-marker; without
\* mid-markers it is the first candidate of all.
C7_FirstFarCandidate ==
  (last.op \in PlaceOps /\ err = "") =>
    \E k \in 0..MaxCandidates :
      /\ nodes[rxns[last.r].mid_marker].pos = LastCandidate(k)
      /\ FarFromAll(LastCandidate(k))
      /\ \A j \in 0..(k - 1) : ~FarFromAll(LastCandidate(j))
      /\ MidMarkerSpots = {} => k = 0

\* a placement that passed over two candidates, one near a mid-marker of
\* the map and one near an additional mid-marker
C7_Witness ==
  /\ last.op = "place_reaction_on_backbone"
  /\ err = ""
  /\ last.additional # <<>>
  /\ \E k \in DOMAIN maps[1].nodes : nodes[maps[1].nodes[k]].node_type = "midmarker"
  /\ nodes[rxns[last.r].mid_marker].pos = LastCandidate(2)

----------------------------------------------------------------------------
(* The offset search of alternating_pathways_sides, one evaluation of the  *)
(* loop condition per step.  The record search holds the frame of the call:*)
(* its arguments, the loop counter i and the point returned.               *)

MaxSearch == 12    \* the loop counter of the search stays below this

\* positions of node1 and node2, and of the mid-markers handed to the search
SearchNodes == {<<200, 200>>, <<400, 200>>, <<200, 400>>}
SearchMids == {<<300, 200>>, <<300, 0>>, <<300, 400>>, <<300, 600>>}
SearchSpacings == {KgmlSpacing, PathSpacing}

\* the lists of at most two mid-markers (a list may hold a place twice)
MidLists ==
  {<<>>} \cup {<<a>> : a \in SearchMids}
         \cup {<<a, b>> : a, b \in SearchMids}

Idle ==
  [pc |-> "idle", node1 |-> NoPos, node2 |-> NoPos, mid_markers |-> <<>>,
   spacing |-> 0, centered |-> TRUE, i |-> 0, xy |-> NoPos]

SearchInit ==
  /\ nodes = <<>>
  /\ segs = <<>>
  /\ rxns = <<>>
  /\ maps = [m \in Maps |-> NewMap]
  /\ err = ""
  /\ last = NoOp
  /\ search = Idle
  /\ doc = <<>>
  /\ lines = <<>>

\* the call: two positioned nodes on a line parallel to an axis (or at one
\* place), a list of mid-markers, spacing and centered
Enter ==
  /\ search.pc = "idle"
  /\ \E node1, node2 \in SearchNodes, mids \in MidLists,
        spacing \in SearchSpacings, centered \in BOOLEAN :
       /\ node1[1] = node2[1] \/ node1[2] = node2[2]
       /\ search' = [Idle EXCEPT !.pc = "called", !.node1 = node1, !.node2 = node2,
                                 !.mid_markers = mids, !.spacing = spacing,
                                 !.centered = centered]
  /\ err' = ""
  /\ UNCHANGED <<nodes, segs, rxns, maps, last, doc, lines>>

\* dx, dy, distance, center_point, normal and the first i: the division by
\* distance raises ZeroDivisionError when it is 0
Begin ==
  /\ search.pc = "called"
  /\ IF Distance(search.node1, search.node2) = 0
       THEN /\ search' = [search EXCEPT !.pc = "raised"]
            /\ err' = "ZeroDivisionError"
       ELSE /\ search' = [search EXCEPT !.pc = "loop",
                                        !.i = IF search.centered THEN 1 ELSE 0]
            /\ err' = err
  /\ UNCHANGED <<nodes, segs, rxns, maps, last, doc, lines>>

\* one pass of while True: return mid_marker_xy, or i += 1
SearchStep ==
  /\ search.pc = "loop"
  /\ LET c == Candidate(search.node1, search.node2, search.i,
                        search.spacing, search.centered)
     IN  IF AnyNear(search.mid_markers, c, search.spacing)
           THEN /\ search.i < MaxSearch
                /\ search' = [search EXCEPT !.i = search.i + 1]
           ELSE search' = [search EXCEPT !.pc = "returned", !.xy = c]
  /\ UNCHANGED <<nodes, segs, rxns, maps, err, last, doc, lines>>

\* the caller goes on after the return or the exception
Leave ==
  /\ search.pc \in {"returned", "raised"}
  /\ search' = Idle
  /\ UNCHANGED <<nodes, segs, rxns, maps, err, last, doc, lines>>

SearchNext == Enter \/ Begin \/ SearchStep \/ Leave

\* a call that was made runs on: the interpreter executes the next statement
SpecSearch == SearchInit /\ [][SearchNext]_vars /\ WF_vars(SearchNext)

\* C8 as stated: for every list of mid-markers and every pair of positioned
\* backbone nodes, a call of the offset search terminates and returns a
\* point.
C8_SearchReturns == (search.pc = "called") ~> (search.pc = "returned")

----------------------------------------------------------------------------
(* Export and re-import: Map.to_escher, the JSON text, load_as_template.   *)
(* A dict is a sequence of <<key, value>> pairs in insertion order.  In a  *)
(* JSON text every key of an object is a string, whatever it was in the    *)
(* dict; a number stays a number and None becomes null.  The record doc    *)
(* holds the text and what load_as_template made of it.                    *)

\* the keys of a registry in insertion order: the counter only grows, so a
\* later entry has a larger key
KeySeq(registry, counter) ==
  SelectSeq([i \in 1..(counter + 1) |-> i - 1], LAMBDA k : k \in DOMAIN registry)

\* Node.to_escher: the fields of the node without the identifier
NodeToEscher(nd) ==
  [node_type |-> nd.node_type, pos |-> nd.pos, label |-> nd.label,
   node_is_primary |-> nd.node_is_primary]

\* Segment.to_escher
SegmentToEscher(w, s) ==
  [from_node_id |-> w.nodes[w.segs[s].from_node].identifier,
   to_node_id   |-> w.nodes[w.segs[s].to_node].identifier,
   b1 |-> w.segs[s].b1, b2 |-> w.segs[s].b2]

\* Reaction.to_escher: the metabolites under the key "coeficient" (a node
\* stands for its bigg_id), the segments under their identifiers
ReactionToEscher(w, r) ==
  LET rx == w.rxns[r]
  IN  [metabolites |-> [k \in 1..Len(rx.metabolites) |->
                          [coeficient |-> rx.metabolites[k][1],
                           bigg_id |-> rx.metabolites[k][2]]],
       segments |-> [k \in 1..Len(rx.segments) |->
                       <<w.segs[rx.segments[k]].identifier,
                         SegmentToEscher(w, rx.segments[k])>>]]

\* Map.to_escher: the body (text_labels is always empty)
MapToEscher(w, m) ==
  LET reg == w.maps[m]
      rk  == KeySeq(reg.reactions, reg.reaction_counter)
      nk  == KeySeq(reg.nodes, reg.node_counter)
  IN  [reactions |-> [k \in 1..Len(rk) |-> <<rk[k], ReactionToEscher(w, reg.reactions[rk[k]])>>],
       nodes     |-> [k \in 1..Len(nk) |-> <<nk[k], NodeToEscher(w.nodes[reg.nodes[nk[k]]])>>]]

\* json: a key of a dict becomes a string; an int value stays a number and
\* None becomes null
JsonKey(k) == <<"str", k>>
JsonValue(v) == IF v = None THEN <<"null", None>> ELSE <<"int", v>>

JsonSegment(sd) ==
  [sd EXCEPT !.from_node_id = JsonValue(sd.from_node_id),
             !.to_node_id = JsonValue(sd.to_node_id)]

JsonReaction(rd) ==
  [rd EXCEPT !.segments = [k \in 1..Len(rd.segments) |->
                             <<JsonKey(rd.segments[k][1]), JsonSegment(rd.segments[k][2])>>]]

\* json.dump followed by json.load
JsonText(d) ==
  [reactions |-> [k \in 1..Len(d.reactions) |->
                    <<JsonKey(d.reactions[k][1]), JsonReaction(d.reactions[k][2])>>],
   nodes     |-> [k \in 1..Len(d.nodes) |-> <<JsonKey(d.nodes[k][1]), d.nodes[k][2]>>]]

\* key in dict
HasKey(pairs, key) == \E k \in 1..Len(pairs) : pairs[k][1] = key

\* nodes[segment["from_node_id"]] of the first segment raises KeyError
FirstLookupFails(d, rd) == ~HasKey(d.nodes, rd.segments[1][2].from_node_id)

\* the texts whose import is modelled: the first node lookup of every
\* reaction that has segments fails (so it is for every text an export makes)
LoadCovered(d) ==
  \A k \in 1..Len(d.reactions) :
    d.reactions[k][2].segments # <<>> => FirstLookupFails(d, d.reactions[k][2])

\* load_as_template: the nodes by their keys; a reaction without segments
\* has no mid_marker and is skipped ("Requires one mid marker."); in a
\* reaction with segments the first lookup raises
LoadAsTemplate(d) ==
  IF \E k \in 1..Len(d.reactions) : d.reactions[k][2].segments # <<>>
    THEN [err |-> "KeyError", reactions |-> <<>>, nodes |-> <<>>]
    ELSE [err |-> "", reactions |-> <<>>, nodes |-> d.nodes]

NoDoc == [stage |-> "none", json |-> <<>>, err |-> "", reactions |-> <<>>, nodes |-> <<>>]

RTInit ==
  /\ nodes = [k \in MetRefs |-> NewNode("metabolite", NoPos, NoPos, k = 1)]
  /\ segs = <<>>
  /\ rxns = <<>>
  /\ maps = [m \in Maps |-> NewMap]
  /\ err = ""
  /\ last = NoOp
  /\ search = <<>>
  /\ doc = NoDoc
  /\ lines = <<>>

\* json.dump(m.to_escher(), fp) for map 1
Export ==
  /\ doc.stage = "none"
  /\ doc' = [NoDoc EXCEPT !.stage = "exported", !.json = JsonText(MapToEscher(World, 1))]
  /\ UNCHANGED <<nodes, segs, rxns, maps, err, last, search, lines>>

\* m, reactions, nodes = load_as_template(fp)
Load ==
  /\ doc.stage = "exported"
  /\ LoadCovered(doc.json)
  /\ LET res == LoadAsTemplate(doc.json)
     IN  doc' = [doc EXCEPT !.stage = "loaded", !.err = res.err,
                            !.reactions = res.reactions, !.nodes = res.nodes]
  /\ UNCHANGED <<nodes, segs, rxns, maps, err, last, search, lines>>

\* a map is built, exported once and the export loaded
RTNext ==
  \/ doc.stage = "none" /\ CoreNext
  \/ Export
  \/ Load

SpecRT == RTInit /\ [][RTNext]_vars

\* what the claim compares of reaction r: the positions of its nodes, the
\* endpoints and control points of its segments, its coefficients
ReactionContent(r) ==
  [mid          |-> nodes[rxns[r].mid_marker].pos,
   metabolites  |-> [k \in 1..Len(rxns[r].metabolites) |->
                       <<rxns[r].metabolites[k][1], nodes[rxns[r].metabolites[k][2]].pos>>],
   segments     |-> [k \in 1..Len(rxns[r].segments) |->
                       LET s == segs[rxns[r].segments[k]]
                       IN  <<nodes[s.from_node].pos, nodes[s.to_node].pos, s.b1, s.b2>>]]

\* C9 as stated: exporting map 1 with to_escher and loading the result with
\* load_as_template completes without error, and every reaction of the map
\* is among the loaded reactions with the same node positions, segment
\* endpoints, control points and coefficients.
C9_RoundTrip ==
  doc.stage = "loaded" =>
    /\ doc.err = ""
    /\ \A k \in DOMAIN maps[1].reactions :
         \E j \in 1..Len(doc.reactions) :
           doc.reactions[j] = ReactionContent(maps[1].reactions[k])

----------------------------------------------------------------------------
(* Backbone extraction of kgml_to_escher_map: the polylines of a reaction  *)
(* are merged into one chain; the longest edge of the chain gives the      *)
(* mid-marker and the axis.  A point is <<x, y>>, a polyline a sequence of *)
(* points.  The record lines holds the reaction read and what was made of  *)
(* it.  Coordinates are multiples of 100, so that dx / 2 is whole.         *)

MaxEdges == 2     \* edges of a polyline
MaxLines == 2     \* polylines of a reaction

\* is_within(coord, refcoord1, refcoord2); the horizontal branch compares
\* coord[1] with the x range
IsWithin(coord, refcoord1, refcoord2) ==
  LET min_x == Min(refcoord1[1], refcoord2[1])
      min_y == Min(refcoord1[2], refcoord2[2])
      max_x == IF refcoord1[1] >= refcoord2[1] THEN refcoord1[1] ELSE refcoord2[1]
      max_y == IF refcoord1[2] >= refcoord2[2] THEN refcoord1[2] ELSE refcoord2[2]
  IN  IF min_x = max_x
        THEN coord[1] = min_x /\ min_y <= coord[2] /\ coord[2] <= max_y
        ELSE IF min_y = max_y
               THEN coord[2] = min_y /\ min_x <= coord[2] /\ coord[2] <= max_x
               ELSE FALSE

\* the body of the two pairwise loops for one edge of the line and one edge
\* of the backbone: the segment appended, if any; .apend raises
Overlap(coord0_1, coord0_2, coord1_1, coord1_2) ==
  IF IsWithin(coord0_1, coord1_1, coord1_2)
    THEN [err |-> "",
          segs |-> IF IsWithin(coord0_2, coord1_1, coord1_2)
                     THEN << <<coord0_1, coord0_2>> >>
                     ELSE IF IsWithin(coord1_1, coord0_1, coord0_2)
                            THEN << <<coord0_1, coord1_1>> >>
                            ELSE IF IsWithin(coord1_2, coord0_1, coord0_2)
                                   THEN << <<coord0_1, coord1_2>> >>
                                   ELSE <<>>]
    ELSE IF /\ IsWithin(coord0_2, coord1_1, coord1_2)
            /\ \/ IsWithin(coord1_1, coord0_1, coord0_2)
               \/ IsWithin(coord1_2, coord0_1, coord0_2)
           THEN [err |-> "AttributeError", segs |-> <<>>]
           ELSE [err |-> "", segs |-> <<>>]

\* overlapping_segments: pass t = 1, 2, ... of the double loop over
\* pairwise(line) and pairwise(overlapping_line), the line's edges outermost
RECURSIVE OverlappingFrom(_, _, _, _)
ScanNext(res, line, over, t, acc) ==
  IF res.err # "" THEN [err |-> res.err, segs |-> acc]
                  ELSE OverlappingFrom(line, over, t + 1, acc \o res.segs)

OverlappingFrom(line, over, t, acc) ==
  LET m == Len(over) - 1
      i == (t - 1) \div m + 1
      j == ((t - 1) % m) + 1
  IN  IF t > (Len(line) - 1) * m
        THEN [err |-> "", segs |-> acc]
        ELSE ScanNext(Overlap(line[i], line[i + 1], over[j], over[j + 1]),
                      line, over, t, acc)

OverlappingSegments(line, over) == OverlappingFrom(line, over, 1, <<>>)

\* o[0], o[1] and the point share their x or their y
Straight(o, p) ==
  \/ o[1][1] = o[2][1] /\ o[2][1] = p[1]
  \/ o[1][2] = o[2][2] /\ o[2][2] = p[2]

\* the four branches for one chain o of ol: the chain after the merge, or
\* <<>> when no branch applies; pop(0) drops the first point, pop(-1) the last
MergeInto(o, segment) ==
  IF o[1] = segment[1]
    THEN <<segment[2]>> \o (IF Straight(o, segment[2]) THEN Tail(o) ELSE o)
  ELSE IF o[1] = segment[2]
    THEN <<segment[1]>> \o (IF Straight(o, segment[1]) THEN Tail(o) ELSE o)
  ELSE IF o[2] = segment[1]
    THEN (IF Straight(o, segment[2]) THEN SubSeq(o, 1, Len(o) - 1) ELSE o) \o <<segment[2]>>
  ELSE IF o[2] = segment[2]
    THEN (IF Straight(o, segment[1]) THEN SubSeq(o, 1, Len(o) - 1) ELSE o) \o <<segment[1]>>
  ELSE <<>>

\* for o in ol: ... break; else: ol.append([segment[0], segment[1]])
AddToChains(ol, segment) ==
  LET hits == {k \in 1..Len(ol) : MergeInto(ol[k], segment) # <<>>}
  IN  IF hits = {}
        THEN Append(ol, <<segment[1], segment[2]>>)
        ELSE LET k == CHOOSE h \in hits : \A g \in hits : h <= g
             IN  [ol EXCEPT ![k] = MergeInto(ol[k], segment)]

\* ol after the segments from index k on
RECURSIVE ChainsFrom(_, _, _)
ChainsFrom(segments, k, ol) ==
  IF k > Len(segments) THEN ol
                       ELSE ChainsFrom(segments, k + 1, AddToChains(ol, segments[k]))

\* for line in lines[1:], from line k on with the backbone found so far
RECURSIVE BackboneFrom(_, _, _)
Merged(ol, ls, k) ==
  IF ol = <<>> THEN [err |-> "", chain |-> ls[1]]
               ELSE BackboneFrom(ls, k + 1, ol[1])

Scanned(res, ls, k) ==
  IF res.err # "" THEN [err |-> res.err, chain |-> <<>>]
                  ELSE Merged(ChainsFrom(res.segs, 1, <<>>), ls, k)

BackboneFrom(ls, k, over) ==
  IF k > Len(ls) THEN [err |-> "", chain |-> over]
                 ELSE Scanned(OverlappingSegments(ls[k], over), ls, k)

\* overlapping_line after the loop over lines[1:]
Backbone(ls) == BackboneFrom(ls, 2, ls[1])

\* scale_factor (default) and the radius of the flip test
ScaleFactor == 3
FlipRadius == 25

\* lengths: (dx ** 2 + dy) of each edge of the chain
Lengths(chain) ==
  [k \in 1..(Len(chain) - 1) |->
     (chain[k + 1][1] - chain[k][1]) * (chain[k + 1][1] - chain[k][1])
       + (chain[k + 1][2] - chain[k][2])]

\* index_max: max(range(len(lengths)), key=...) is the first largest
IndexMax(lengths) ==
  CHOOSE k \in 1..Len(lengths) :
    /\ \A j \in 1..Len(lengths) : lengths[j] <= lengths[k]
    /\ \A j \in 1..(k - 1) : lengths[j] < lengths[k]

\* flip: the coefficient of the first metabolite within the radius of the
\* first point of the first polyline is positive; metabolites as
\* <<coefficient, position>>
Flip(metabolites, first) ==
  LET close == {k \in 1..Len(metabolites) :
                  LET d == VSub(metabolites[k][2], first)
                  IN  d[1] * d[1] + d[2] * d[2]
                        <= (FlipRadius * ScaleFactor) * (FlipRadius * ScaleFactor)}
  IN  IF close = {} THEN FALSE
      ELSE metabolites[CHOOSE k \in close : \A j \in close : k <= j][1] > 0

\* mid_x, mid_y and angle (in quarter turns) from edge k of the chain;
\* math.remainder(angle + pi, 2 * pi) turns the axis round
MidAndAxis(chain, k, flip) ==
  [err   |-> "",
   chain |-> chain,
   mid   |-> <<chain[k][1] + (chain[k + 1][1] - chain[k][1]) \div 2,
               chain[k][2] + (chain[k + 1][2] - chain[k][2]) \div 2>>,
   turns |-> (AxisTurns(chain[k], chain[k + 1]) + (IF flip THEN 2 ELSE 0)) % 4]

\* lines 114-181: the backbone, then its longest edge
Extracted(res, flip) ==
  IF res.err # ""
    THEN [err |-> res.err, chain |-> <<>>, mid |-> NoPos, turns |-> 0]
    ELSE MidAndAxis(res.chain, IndexMax(Lengths(res.chain)), flip)

Extraction(ls, metabolites) == Extracted(Backbone(ls), Flip(metabolites, ls[1][1]))

\* the extractions modelled: the edge chosen is parallel to an axis
EdgeOnAxis(chain, k) == chain[k][1] = chain[k + 1][1] \/ chain[k][2] = chain[k + 1][2]

KgmlCovered(res) ==
  res.err = "" => EdgeOnAxis(res.chain, IndexMax(Lengths(res.chain)))

\* the points of the diagram, and the polylines of at most MaxEdges edges
\* whose edges are horizontal or vertical and not empty
GridPoints == {<<x, y>> : x \in {0, 100, 200}, y \in {0, 100, 200}}

Polylines ==
  {p \in UNION {[1..n -> GridPoints] : n \in 2..(MaxEdges + 1)} :
     \A k \in 1..(Len(p) - 1) :
       /\ p[k] # p[k + 1]
       /\ p[k][1] = p[k + 1][1] \/ p[k][2] = p[k + 1][2]}

LineLists == UNION {[1..n -> Polylines] : n \in 1..MaxLines}

\* the metabolites of the reaction: none, or a substrate and a product
MetLists == {<<>>, << <<-1, <<0, 0>> >>, <<1, <<100, 0>> >> >>}

NoReaction ==
  [stage |-> "none", lines |-> <<>>, metabolites |-> <<>>, err |-> "",
   chain |-> <<>>, mid |-> NoPos, turns |-> 0]

KgmlInit ==
  /\ nodes = <<>>
  /\ segs = <<>>
  /\ rxns = <<>>
  /\ maps = [m \in Maps |-> NewMap]
  /\ err = ""
  /\ last = NoOp
  /\ search = <<>>
  /\ doc = <<>>
  /\ lines = NoReaction

\* a reaction of the file with line graphics: lines = reaction_lines[name]
ReadReaction ==
  /\ lines.stage = "none"
  /\ \E ls \in LineLists, metabolites \in MetLists :
       lines' = [NoReaction EXCEPT !.stage = "read", !.lines = ls,
                                   !.metabolites = metabolites]
  /\ UNCHANGED <<nodes, segs, rxns, maps, err, last, search, doc>>

\* what the extraction leaves: its results, or the exception
Extract(res) ==
  /\ lines' = [lines EXCEPT !.stage = IF res.err = "" THEN "done" ELSE "raised",
                            !.err = res.err, !.chain = res.chain,
                            !.mid = res.mid, !.turns = res.turns]
  /\ err' = res.err

ExtractBackbone ==
  /\ lines.stage = "read"
  /\ KgmlCovered(Backbone(lines.lines))
  /\ Extract(Extraction(lines.lines, lines.metabolites))
  /\ UNCHANGED <<nodes, segs, rxns, maps, last, search, doc>>

KgmlNext == ReadReaction \/ ExtractBackbone

SpecKgml == KgmlInit /\ [][KgmlNext]_vars

\* C10 as stated: for a polyline P with horizontal and vertical edges, the
\* extraction on [P, P] completes without raising and yields the chain, the
\* midpoint and the axis of the extraction on [P].
C10_SelfOverlap ==
  (/\ lines.stage \in {"done", "raised"}
   /\ Len(lines.lines) = 2
   /\ lines.lines[1] = lines.lines[2])
    => /\ lines.stage = "done"
       /\ LET alone == Extraction(<<lines.lines[1]>>, lines.metabolites)
          IN  /\ lines.chain = alone.chain
              /\ lines.mid = alone.mid
              /\ lines.turns = alone.turns

----------------------------------------------------------------------------
(* Properties of the backbone extraction *)

Max(a, b) == IF a >= b THEN a ELSE b

\* two edges parallel to the same axis lie on one line and have more than
\* a point in common
EdgesOverlap(a, b, c, d) ==
  \/ /\ a[1] = b[1] /\ c[1] = d[1] /\ a[1] = c[1]
     /\ Max(Min(a[2], b[2]), Min(c[2], d[2])) < Min(Max(a[2], b[2]), Max(c[2], d[2]))
  \/ /\ a[2] = b[2] /\ c[2] = d[2] /\ a[2] = c[2]
     /\ Max(Min(a[1], b[1]), Min(c[1], d[1])) < Min(Max(a[1], b[1]), Max(c[1], d[1]))

\* the polyline and the chain share a sub-segment
SharesSubSegment(line, chain) ==
  \E i \in 1..(Len(line) - 1), j \in 1..(Len(chain) - 1) :
    EdgesOverlap(line[i], line[i + 1], chain[j], chain[j + 1])

\* polyline k of the reaction shares no sub-segment with the backbone the
\* polylines before it give
NoOverlapAt(ls, k) ==
  LET before == Backbone(SubSeq(ls, 1, k - 1))
  IN  before.err = "" /\ ~SharesSubSegment(ls[k], before.chain)

\* C11 as stated: when a later polyline shares no sub-segment with the
\* backbone so far, the extraction does not raise, the backbone is the
\* first polyline of the reaction, and the midpoint and the axis are those
\* of the first polyline.
C11_NoOverlapFallsBack ==
  (/\ lines.stage \in {"done", "raised"}
   /\ \E k \in 2..Len(lines.lines) : NoOverlapAt(lines.lines, k))
    => /\ lines.stage = "done"
       /\ LET first == Extraction(<<lines.lines[1]>>, lines.metabolites)
          IN  /\ lines.chain = lines.lines[1]
              /\ lines.mid = first.mid
              /\ lines.turns = first.turns

----------------------------------------------------------------------------
(* One side of an AutoReaction filled with new metabolite nodes: every     *)
(* call of add_metabolite gets a MetaboliteNode made for it (no position,  *)
(* no label position), b1_b2 and placement_opts are left at their          *)
(* defaults, and all calls of a run pass the same coefficient.             *)

SideAdds == 11        \* add_metabolite calls on the reaction

\* the coefficients tried, 0 among them
SideCoefs == {-1, 0, 1}

\* AutoReaction(mid_marker=MidMarkerNode(0, 0), angle=0), not added to a map
SideInit ==
  /\ LET w0 == [nodes |-> <<>>, segs |-> <<>>, rxns |-> <<>>,
                maps |-> [m \in Maps |-> NewMap]]
         w1 == AllocNode(w0, NewNode("midmarker", <<0, 0>>, NoPos, FALSE))
         w2 == AutoReactionInit(w1, 0, Len(w1.nodes), NoRef, NoRef)
     IN  /\ nodes = w2.nodes
         /\ segs = w2.segs
         /\ rxns = w2.rxns
         /\ maps = w2.maps
  /\ err = ""
  /\ last = NoOp
  /\ Aside

\* reaction.add_metabolite(node, coefficient) on the node just made, the
\* last of w
AddMade(w, coef) ==
  AutoAdded(1, Len(w.nodes), coef, AutoAddMetabolite(w, 1, Len(w.nodes), coef, NoB))

\* node = MetaboliteNode(..., node_is_primary=primary);
\* reaction.add_metabolite(node, coef)
AddFresh(primary, coef) ==
  /\ Len(rxns[1].metabolites) < SideAdds
  /\ rxns[1].metabolites # <<>> => coef = rxns[1].metabolites[1][1]
  /\ AddMade(AllocNode(World, NewNode("metabolite", NoPos, NoPos, primary)), coef)
  /\ UNCHANGED aside

SideNext == \E primary \in BOOLEAN, coef \in SideCoefs : AddFresh(primary, coef)

SpecSide == SideInit /\ [][SideNext]_vars

\* the metabolites of reaction 1 on side pm (0 minus, 1 plus), in the
\* order they were added
OnSide(pm) == SelectSeq(rxns[1].metabolites, LAMBDA e : PlusMinus(e[1]) = pm)

\* node n sits where candidate i of the slot search puts a node of its kind
SitsAt(n, pm, i) ==
  nodes[n].pos = VAdd(nodes[RefNode(rxns[1], pm)].pos,
                      Rot(SlotOffsetTable[nodes[n].node_is_primary][i + 1],
                          SideTurns(rxns[1], pm)))

\* the angular delta of the k-th place of the claim: 0, -d, d, -2d, 2d, ...
DeltaInOrder(k) == (IF k % 2 = 0 THEN -1 ELSE 1) * (k \div 2) * DELTA

\* the k-th metabolite of the side sits at the k-th candidate, and that
\* candidate has the k-th angular delta of the claim
KthAtKth(pm, k) ==
  /\ SitsAt(OnSide(pm)[k][2], pm, k - 1)
  /\ AlternatingSidePlacement(k - 1)[3] = DeltaInOrder(k)

\* C12 as stated: the metabolites without position added on one sign take
\* the angular deltas 0, -delta, +delta, -2 delta, ... in the order they
\* are added (as far as there are candidates).
C12_SlotsInOrder ==
  \A pm \in {0, 1} : \A k \in 1..Len(OnSide(pm)) :
    k <= NSLOTS => KthAtKth(pm, k)

\* C12 amended: the first three metabolites of a sign sit at 0, -delta and
\* +delta; the following ones go on in the order of the candidates as long
\* as the nodes of the sign are all primary or all not primary.
C12_SameKindInOrder ==
  \A pm \in {0, 1} : \A k \in 1..Len(OnSide(pm)) :
    (/\ k <= NSLOTS
     /\ \/ k <= 3
        \/ \A j \in 1..k : nodes[OnSide(pm)[j][2]].node_is_primary
                             = nodes[OnSide(pm)[1][2]].node_is_primary)
      => KthAtKth(pm, k)

\* ten nodes of one kind on one side, the tenth at the last candidate
C12_Witness ==
  \E pm \in {0, 1} :
    /\ Len(OnSide(pm)) = NSLOTS
    /\ \A j \in 1..NSLOTS : nodes[OnSide(pm)[j][2]].node_is_primary
    /\ SitsAt(OnSide(pm)[NSLOTS][2], pm, NSLOTS - 1)

----------------------------------------------------------------------------
(* The side a coefficient selects.                                         *)

\* the segment add_metabolite made for the k-th metabolite of reaction 1;
\* the first two segments join the mid-marker and the multi-markers
MetSegment(k) ==
  segs[rxns[1].segments[Len(rxns[1].segments) - Len(rxns[1].metabolites) + k]]

\* the number of metabolites of reaction 1 whose coefficient is in S
CountCoefs(S) ==
  Cardinality({k \in 1..Len(rxns[1].metabolites) : rxns[1].metabolites[k][1] \in S})

\* C13: every metabolite with a coefficient >= 0, 0 included, is handled as
\* the plus side: its segment leads from the plus-side reference node to
\* the metabolite, and the used-delta list of the plus side holds one entry
\* for each of them, the list of the minus side one for each negative one.
C13_ZeroIsPlus ==
  /\ \A k \in 1..Len(rxns[1].metabolites) :
       rxns[1].metabolites[k][1] >= 0 =>
         /\ MetSegment(k).from_node = RefNode(rxns[1], 1)
         /\ MetSegment(k).to_node = rxns[1].metabolites[k][2]
  /\ Len(rxns[1].used_deltas[2]) = CountCoefs({c \in SideCoefs : c >= 0})
  /\ Len(rxns[1].used_deltas[1]) = CountCoefs({c \in SideCoefs : c < 0})

----------------------------------------------------------------------------
(* The label of a node that is placed again.                               *)

\* C14: AutoReaction.add_metabolite leaves the label position of every node
\* that has one as it is, the node it places included.
C14_LabelKept ==
  [][\A n \in 1..Len(nodes) :
       nodes[n].label # NoPos => nodes'[n].label = nodes[n].label]_vars

\* the last call placed a node that an earlier call had placed and labelled
C14_Witness ==
  /\ last.op = "auto_add_metabolite"
  /\ nodes[last.n].label # NoPos
  /\ \E j, k \in 1..Len(rxns[1].metabolites) :
       /\ j < k
       /\ k = Len(rxns[1].metabolites)
       /\ rxns[1].metabolites[j][2] = last.n
       /\ rxns[1].metabolites[k][2] = last.n

----------------------------------------------------------------------------
(* The slot search of a call, seen from outside: the state before the      *)
(* call, the state after it and the record of the call in last.            *)

\* b1_b2 of the call just made: with b1_b2 = (None, None) the new segment
\* has no control points, with b1_b2 = None it has the computed ones
CallB == IF segs'[Len(segs')].b1 = NoPos THEN StraightB ELSE NoB

\* the effective angular delta of candidate j for the node of the call
CandidateDelta(j) ==
  CalculatePlacement(World, rxns[1], RefNode(rxns[1], last'.pm), last'.n,
                     last'.pm, j, CallB).eff

\* the call appended entry e to the used-delta list of its side and left
\* the list of the other side alone
AppendedOnSide(pm, e) ==
  /\ Len(rxns'[1].used_deltas[pm + 1]) = Len(rxns[1].used_deltas[pm + 1]) + 1
  /\ rxns'[1].used_deltas[pm + 1] = Append(rxns[1].used_deltas[pm + 1], e)
  /\ rxns'[1].used_deltas[2 - pm] = rxns[1].used_deltas[2 - pm]

----------------------------------------------------------------------------
(* The chain carried forward when a polyline leaves several chains.        *)

StairEdges == 3     \* edges of a polyline that turns at every point

\* the polylines of StairEdges edges whose edges are horizontal or
\* vertical, not empty, and each at a right angle to the one before
Stairs ==
  {p \in [1..(StairEdges + 1) -> GridPoints] :
     /\ \A k \in 1..StairEdges :
          /\ p[k] # p[k + 1]
          /\ p[k][1] = p[k + 1][1] \/ p[k][2] = p[k + 1][2]
     /\ \A k \in 1..(StairEdges - 1) :
          (p[k][1] = p[k + 1][1]) # (p[k + 1][1] = p[k + 2][1])}

\* a reaction of the file with two such polylines as its line graphics
ReadStairs ==
  /\ lines.stage = "none"
  /\ \E first, second \in Stairs :
       lines' = [NoReaction EXCEPT !.stage = "read", !.lines = <<first, second>>]
  /\ UNCHANGED <<nodes, segs, rxns, maps, err, last, search, doc>>

StairsNext == ReadStairs \/ ExtractBackbone

SpecStairs == KgmlInit /\ [][StairsNext]_vars

\* the length of a chain along its edges
RECURSIVE ChainLength(_)
ChainLength(o) ==
  IF Len(o) < 2 THEN 0
  ELSE Abs(o[2][1] - o[1][1]) + Abs(o[2][2] - o[1][2]) + ChainLength(Tail(o))

\* ol after the second polyline of the reaction has been merged with the
\* first (<<>> when the scan raises)
ChainsOfSecond(ls) ==
  LET res == OverlappingSegments(ls[2], ls[1])
  IN  IF res.err # "" THEN <<>> ELSE ChainsFrom(res.segs, 1, <<>>)

\* chain a is longer than chain b: along its edges and in points
LongerChain(a, b) == ChainLength(a) > ChainLength(b) /\ Len(a) > Len(b)

\* C16: when the second polyline leaves several chains, no chain is longer
\* than the one carried forward as the backbone.
C16_LongestChain ==
  (/\ lines.stage = "done"
   /\ Len(lines.lines) = 2
   /\ Len(ChainsOfSecond(lines.lines)) >= 2)
    => \A k \in 1..Len(ChainsOfSecond(lines.lines)) :
         ~LongerChain(ChainsOfSecond(lines.lines)[k], lines.chain)

----------------------------------------------------------------------------
(* The merge of the overlapping sub-segments into chains, step by step.    *)

\* overlapping_segments of the second polyline against the first
SegmentsOfSecond(ls) == OverlappingSegments(ls[2], ls[1]).segs

\* ol after the first k of the segments
ChainsAfter(segments, k) == ChainsFrom(SubSeq(segments, 1, k), 1, <<>>)

\* every two consecutive points of the chain share their x or their y
AxisAligned(o) ==
  \A j \in 1..(Len(o) - 1) : o[j][1] = o[j + 1][1] \/ o[j][2] = o[j + 1][2]

\* an endpoint of the segment is the first or the last point of the chain
JoinedAtEnd(o, segment) ==
  \/ segment[1] \in {o[1], o[Len(o)]}
  \/ segment[2] \in {o[1], o[Len(o)]}

\* the chain after the merge is not shorter, along its edges or in points
NotShorter(after, before) ==
  ChainLength(after) >= ChainLength(before) /\ Len(after) >= Len(before)

\* merging segment k: the chains changed were joined at an end and did not
\* get shorter, and all chains are axis-aligned afterwards
MergeStepSound(segments, k) ==
  /\ \A c \in 1..Len(ChainsAfter(segments, k - 1)) :
       ChainsAfter(segments, k)[c] # ChainsAfter(segments, k - 1)[c] =>
         /\ JoinedAtEnd(ChainsAfter(segments, k - 1)[c], segments[k])
         /\ NotShorter(ChainsAfter(segments, k)[c], ChainsAfter(segments, k - 1)[c])
  /\ \A c \in 1..Len(ChainsAfter(segments, k)) :
       AxisAligned(ChainsAfter(segments, k)[c])

\* C17: in every step of the merge a sub-segment is joined to a first or
\* last point of a chain only, no chain gets shorter, and every chain stays
\* an axis-aligned polyline.
C17_MergeSound ==
  (lines.stage = "done" /\ Len(lines.lines) = 2) =>
     \A k \in 1..Len(SegmentsOfSecond(lines.lines)) :
       MergeStepSound(SegmentsOfSecond(lines.lines), k)

----------------------------------------------------------------------------
(* is_within on the points of the diagram.                                 *)

\* is_within(coord, refcoord1, refcoord2) has been called
WithinInit ==
  /\ nodes = <<>>
  /\ segs = <<>>
  /\ rxns = <<>>
  /\ maps = [m \in Maps |-> NewMap]
  /\ err = ""
  /\ last = NoOp
  /\ search = <<>>
  /\ doc = <<>>
  /\ \E coord, refcoord1, refcoord2 \in GridPoints :
       lines = [stage |-> "called", coord |-> coord, refcoord1 |-> refcoord1,
                refcoord2 |-> refcoord2, result |-> FALSE]

\* the call returns
WithinReturn ==
  /\ lines.stage = "called"
  /\ lines' = [lines EXCEPT !.stage = "returned",
                            !.result = IsWithin(lines.coord, lines.refcoord1,
                                                lines.refcoord2)]
  /\ UNCHANGED <<nodes, segs, rxns, maps, err, last, search, doc>>

WithinNext == WithinReturn

SpecWithin == WithinInit /\ [][WithinNext]_vars

\* p lies on the horizontal or vertical segment a-b
OnSegment(p, a, b) ==
  \/ a[1] = b[1] /\ p[1] = a[1] /\ Min(a[2], b[2]) <= p[2] /\ p[2] <= Max(a[2], b[2])
  \/ a[2] = b[2] /\ p[2] = a[2] /\ Min(a[1], b[1]) <= p[1] /\ p[1] <= Max(a[1], b[1])

\* the point with x and y swapped
Swapped(p) == <<p[2], p[1]>>

\* C18: is_within answers true exactly for a point on a horizontal or
\* vertical segment, and the same when x and y of all three points are
\* swapped.
C18_IsWithin ==
  lines.stage = "returned" =>
    /\ lines.result = OnSegment(lines.coord, lines.refcoord1, lines.refcoord2)
    /\ lines.result = IsWithin(Swapped(lines.coord), Swapped(lines.refcoord1),
                               Swapped(lines.refcoord2))

----------------------------------------------------------------------------
(* The edge of the backbone that gives the midpoint and the axis.          *)

\* dx ** 2 + dy ** 2 of edge k of the chain
SquaredLength(chain, k) ==
  (chain[k + 1][1] - chain[k][1]) * (chain[k + 1][1] - chain[k][1])
    + (chain[k + 1][2] - chain[k][2]) * (chain[k + 1][2] - chain[k][2])

\* no edge of the chain is longer than edge k
LongestEdge(chain, k) ==
  \A j \in 1..(Len(chain) - 1) : SquaredLength(chain, j) <= SquaredLength(chain, k)

\* the midpoint and the axis of the reaction are those of edge k
TakenFrom(chain, k) ==
  /\ 2 * lines.mid[1] = chain[k][1] + chain[k + 1][1]
  /\ 2 * lines.mid[2] = chain[k][2] + chain[k + 1][2]
  /\ lines.turns = (AxisTurns(chain[k], chain[k + 1])
                      + (IF Flip(lines.metabolites, lines.lines[1][1]) THEN 2 ELSE 0)) % 4

\* C19: the midpoint and the axis are taken from an edge of the backbone
\* chain that has the maximal squared length dx^2 + dy^2.
C19_LongestEdge ==
  lines.stage = "done" =>
    \E k \in 1..(Len(lines.chain) - 1) :
      LongestEdge(lines.chain, k) /\ TakenFrom(lines.chain, k)

====
